---- MODULE Spec2Model ----
(***************************************************************************)
(* frontmcp-tui: the event-ingestion transport (App::run, the socket       *)
(* client, the pipe tailer) and the state-reconciliation engine            *)
(* (DashboardState).  DashboardState is one record, `state`; every handler *)
(* of store.rs is an operator from a DashboardState (and an event) to the  *)
(* DashboardState it leaves behind, composed as the Rust code composes     *)
(* its calls.  Option<T> is a sequence: <<>> is None, <<x>> is Some(x).    *)
(* Strings that only feed a log line's text are not modelled: a LogEntry   *)
(* keeps its timestamp, level, source, session id and request id.          *)
(***************************************************************************)
EXTENDS Naturals, Integers, Sequences, FiniteSets, TLC

VARIABLES
    state,      \* App.state : DashboardState (store.rs:595-663) and the wall clock it reads
    app,        \* what App::run and its reader tasks hold outside the DashboardState
    last        \* the operation that produced the current state, and its input

vars == <<state, app, last>>

None == <<>>
Some(x) == <<x>>
IsSome(o) == o # <<>>
Get(o) == o[1]

\* Vec / iterator helpers ---------------------------------------------------
Range(s) == {s[i] : i \in DOMAIN s}

RECURSIVE Filter(_, _)
\* Vec::retain / Iterator::filter with the predicate given as the set of kept values
Filter(s, keep) ==
    IF s = <<>> THEN <<>>
    ELSE IF Head(s) \in keep THEN <<Head(s)>> \o Filter(Tail(s), keep)
         ELSE Filter(Tail(s), keep)

Names(coll) == {coll[i].name : i \in DOMAIN coll}
NameSeq(coll) == [i \in DOMAIN coll |-> coll[i].name]
HasName(coll, n) == \E i \in DOMAIN coll : coll[i].name = n

\* self.<coll>.retain(|t| !names.contains(&t.name))
RetainNotNamed(coll, names) == Filter(coll, {e \in Range(coll) : e.name \notin Range(names)})

(***************************************************************************)
(* Bounds of the model                                                     *)
(***************************************************************************)
MaxSessionEvents == 4    \* session events and snapshots folded in one behaviour
MaxRequestEvents == 3    \* request events folded in one behaviour
MaxRingLogs == 1100      \* log lines folded in one behaviour of the ring-buffer run
MaxSamples == 70         \* metrics samples folded in one behaviour of the ring-buffer run
MaxLines == 1            \* lines the pipe tailer reads in one behaviour
MaxMessages == 1         \* messages the socket reader reads in one behaviour
MaxStream == 102         \* events of the long pipe stream that fills the event channel
MaxFlowEvents == 2       \* request events of either flow folded in one behaviour
MaxCalls == 6            \* tool outcomes recorded in one behaviour
MaxGraphLoads == 1       \* snapshots and registry events folded in one behaviour of the graph run
MaxTicks == 2            \* samples the metrics collector takes before run() returns
MaxCounterSteps == 3      \* inputs folded while events_received is watched

MaxSchemaEvents == 3      \* session and request events folded in the two-schema run

MaxServerEvents == 4      \* server ready events folded in one behaviour

MaxCommands == 3         \* commands issued through the handle in one behaviour
MaxRegistryEvents == 2   \* registry events and snapshots folded in one behaviour
SessionIds == {"x1", "x2"}

(***************************************************************************)
(* Program constants                                                       *)
(***************************************************************************)
METRICS_HISTORY_SIZE == 60
MAX_TOOL_CALLS == 5
SESSION_LOG_CAP == 500
GLOBAL_LOG_CAP == 1000
RECENT_ERRORS_CAP == 5
SOCKET_MAX_ATTEMPTS == 50
STATE_CHANNEL_CAPACITY == 1
EVENT_CHANNEL_CAPACITY == 100
METRICS_CHANNEL_CAPACITY == 10

(***************************************************************************)
(* DashboardState::default()                                               *)
(***************************************************************************)
OverviewDefault ==
    [registered_apps |-> 0, scope_count |-> 0, server_address |-> None,
     server_port |-> None, active_sessions |-> 0, total_sessions |-> 0,
     last_tool_calls |-> <<>>]

MetricsDefault ==
    [total_requests |-> 0, successful_requests |-> 0, failed_requests |-> 0,
     total_duration_ms |-> 0, tool_usage |-> <<>>,
     inbound_bytes |-> 0, outbound_bytes |-> 0,
     total_tokens |-> 0, prompt_tokens |-> 0, completion_tokens |-> 0,
     current_cpu |-> 0, current_memory |-> 0,
     cpu_history |-> <<>>, memory_history |-> <<>>]

ServerDefault ==
    [is_ready |-> FALSE, name |-> None, version |-> None, address |-> None,
     uptime_ms |-> None, error |-> None]

DashboardStateDefault ==
    [events_received |-> 0, lines_read |-> 0, parse_failures |-> 0,
     pipe_path |-> None, pipe_connected |-> FALSE,
     socket_path |-> None, socket_connected |-> FALSE,
     connection_error |-> None, connection_started_at |-> None,
     recent_errors |-> <<>>,
     overview |-> OverviewDefault,
     sessions |-> <<>>, session_logs |-> <<>>,
     tools |-> <<>>, resources |-> <<>>, prompts |-> <<>>,
     plugins |-> <<>>, adapters |-> <<>>,
     logs |-> <<>>, metrics |-> MetricsDefault, requests |-> <<>>,
     server |-> ServerDefault, config |-> [is_loaded |-> FALSE],
     scopes |-> <<>>, apps |-> <<>>, graph_expanded |-> {},
     graph_selected |-> 0, app_scope_map |-> <<>>,
     \* SystemTime::now() as the Store reads it: a logical clock, one tick per reading
     clock |-> 0]

\* HashMap::insert
MapInsert(m, k, v) == [x \in (DOMAIN m) \cup {k} |-> IF x = k THEN v ELSE m[x]]

(***************************************************************************)
(* Logging                                                                 *)
(***************************************************************************)
\* Vec::push followed by `if len > cap { remove(0) }`
PushCapped(buf, x, cap) ==
    LET pushed == Append(buf, x)
    IN  IF Len(pushed) > cap THEN Tail(pushed) ELSE pushed

add_log_with_context(S, level, source, session_id, request_id) ==
    \* the message text is kept as its number of lines (add_raw_log appends lines)
    LET entry == [timestamp |-> S.clock, level |-> level, source |-> source,
                  session_id |-> session_id, request_id |-> request_id,
                  message_lines |-> 1]
        slogs == IF IsSome(session_id)
                 THEN LET sid == Get(session_id)
                          old == IF sid \in DOMAIN S.session_logs
                                 THEN S.session_logs[sid] ELSE <<>>
                      IN  MapInsert(S.session_logs, sid,
                                    PushCapped(old, entry, SESSION_LOG_CAP))
                 ELSE S.session_logs
    IN  [S EXCEPT !.session_logs = slogs,
                  !.logs = PushCapped(S.logs, entry, GLOBAL_LOG_CAP),
                  !.clock = S.clock + 1]

add_log(S, level, source) == add_log_with_context(S, level, source, None, None)

(***************************************************************************)
(* Overview updates                                                        *)
(***************************************************************************)
\* an update_overview_sessions that counts every stored session as active
update_overview_sessions_AllActive(S) ==
    [S EXCEPT !.overview.total_sessions = Cardinality(DOMAIN S.sessions),
              !.overview.active_sessions = Cardinality(DOMAIN S.sessions)]

update_overview_sessions(S) ==
    [S EXCEPT !.overview.total_sessions = Cardinality(DOMAIN S.sessions),
              !.overview.active_sessions =
                  Cardinality({id \in DOMAIN S.sessions : S.sessions[id].is_active})]

\* the ids inserted into the `apps` HashSet by one of the two loops
AppOwnerIds(coll) ==
    {Get(coll[i].owner_id) : i \in {j \in DOMAIN coll :
        coll[j].owner_kind = Some("app") /\ IsSome(coll[j].owner_id)}}

\* update_overview_registry without its second loop (`for resource in &self.resources`)
update_overview_registry_ToolsOnly(S) ==
    [S EXCEPT !.overview.registered_apps = Cardinality(AppOwnerIds(S.tools)),
              !.overview.scope_count = Len(S.scopes)]

update_overview_registry(S) ==
    [S EXCEPT !.overview.registered_apps =
                  Cardinality(AppOwnerIds(S.tools) \cup AppOwnerIds(S.resources)),
              !.overview.scope_count = Len(S.scopes)]

(***************************************************************************)
(* Registry entries                                                        *)
(***************************************************************************)
ToolInfo(name, description, input_schema, owner_kind, owner_id) ==
    [name |-> name, description |-> description, input_schema |-> input_schema,
     output_schema |-> None, owner_kind |-> owner_kind, owner_id |-> owner_id]
ResourceInfo(name, uri, owner_kind, owner_id) ==
    [name |-> name, uri |-> uri, owner_kind |-> owner_kind, owner_id |-> owner_id]
PromptInfo(name, owner_kind, owner_id) ==
    [name |-> name, owner_kind |-> owner_kind, owner_id |-> owner_id]
PluginInfo(name, version, owner_id) ==
    [name |-> name, version |-> version, owner_id |-> owner_id]
AdapterInfo(name, description, owner_id) ==
    [name |-> name, description |-> description, owner_id |-> owner_id]

\* owner.as_ref().map(|(k, _)| k.clone()) and .map(|(_, id)| id.clone())
OwnerKind(owner) == IF IsSome(owner) THEN Some(Get(owner).kind) ELSE None
OwnerId(owner) == IF IsSome(owner) THEN Some(Get(owner).id) ELSE None

RECURSIVE PushIfAbsent(_, _)
\* for entry in entries { if !coll.iter().any(|t| t.name == entry.name) { coll.push(entry) } }
PushIfAbsent(coll, items) ==
    IF items = <<>> THEN coll
    ELSE PushIfAbsent(IF HasName(coll, Head(items).name) THEN coll
                      ELSE Append(coll, Head(items)),
                      Tail(items))

(***************************************************************************)
(* Helper methods for trace event parsing (data: the event's JSON object,  *)
(* every key optional)                                                     *)
(***************************************************************************)
NoData ==
    [entryNames |-> None, entries |-> None, owner |-> None,
     transportType |-> None, authMode |-> None,
     flowName |-> None, method |-> None, entryName |-> None,
     durationMs |-> None, errorMessage |-> None, address |-> None,
     uptimeMs |-> None, level |-> None, prefix |-> None]

extract_entry_names(data) ==
    IF IsSome(data.entryNames) THEN Get(data.entryNames) ELSE <<>>

extract_owner(data) == data.owner

extract_tool_entries(data) ==
    IF IsSome(data.entries)
    THEN [i \in DOMAIN Get(data.entries) |->
            [name |-> Get(data.entries)[i].name,
             description |-> Get(data.entries)[i].description,
             input_schema |-> Get(data.entries)[i].inputSchema]]
    ELSE [i \in DOMAIN extract_entry_names(data) |->
            [name |-> extract_entry_names(data)[i],
             description |-> None, input_schema |-> None]]

extract_plugin_entries(data) ==
    IF IsSome(data.entries)
    THEN [i \in DOMAIN Get(data.entries) |->
            [name |-> Get(data.entries)[i].name,
             version |-> Get(data.entries)[i].version]]
    ELSE [i \in DOMAIN extract_entry_names(data) |->
            [name |-> extract_entry_names(data)[i], version |-> None]]

extract_adapter_entries(data) ==
    IF IsSome(data.entries)
    THEN [i \in DOMAIN Get(data.entries) |->
            [name |-> Get(data.entries)[i].name,
             description |-> Get(data.entries)[i].description]]
    ELSE [i \in DOMAIN extract_entry_names(data) |->
            [name |-> extract_entry_names(data)[i], description |-> None]]

(***************************************************************************)
(* handle_trace_event: the registry arms                                   *)
(***************************************************************************)
\* add_log only `if !names.is_empty()`
LogIfNamed(S, names) == IF names # <<>> THEN add_log(S, "Info", "registry") ELSE S

TraceToolAddedOrReset(S, data, reset) ==
    LET entries == extract_tool_entries(data)
        owner == extract_owner(data)
        base == IF reset THEN <<>> ELSE S.tools
        items == [i \in DOMAIN entries |->
                    ToolInfo(entries[i].name, entries[i].description,
                             entries[i].input_schema, OwnerKind(owner), OwnerId(owner))]
        S1 == [S EXCEPT !.tools = PushIfAbsent(base, items)]
    IN  update_overview_registry(LogIfNamed(S1, entries))

TraceResourceAddedOrReset(S, data, reset) ==
    LET names == extract_entry_names(data)
        owner == extract_owner(data)
        base == IF reset THEN <<>> ELSE S.resources
        items == [i \in DOMAIN names |->
                    ResourceInfo(names[i], None, OwnerKind(owner), OwnerId(owner))]
        S1 == [S EXCEPT !.resources = PushIfAbsent(base, items)]
    IN  update_overview_registry(LogIfNamed(S1, names))

TracePromptAddedOrReset(S, data, reset) ==
    LET names == extract_entry_names(data)
        owner == extract_owner(data)
        base == IF reset THEN <<>> ELSE S.prompts
        items == [i \in DOMAIN names |->
                    PromptInfo(names[i], OwnerKind(owner), OwnerId(owner))]
        S1 == [S EXCEPT !.prompts = PushIfAbsent(base, items)]
    IN  update_overview_registry(LogIfNamed(S1, names))

TracePluginAddedOrReset(S, data, reset) ==
    LET entries == extract_plugin_entries(data)
        owner == extract_owner(data)
        base == IF reset THEN <<>> ELSE S.plugins
        items == [i \in DOMAIN entries |->
                    PluginInfo(entries[i].name, entries[i].version, OwnerId(owner))]
        S1 == [S EXCEPT !.plugins = PushIfAbsent(base, items)]
    IN  update_overview_registry(LogIfNamed(S1, entries))

TraceAdapterAddedOrReset(S, data, reset) ==
    LET entries == extract_adapter_entries(data)
        owner == extract_owner(data)
        base == IF reset THEN <<>> ELSE S.adapters
        items == [i \in DOMAIN entries |->
                    AdapterInfo(entries[i].name, entries[i].description, OwnerId(owner))]
        S1 == [S EXCEPT !.adapters = PushIfAbsent(base, items)]
    IN  update_overview_registry(LogIfNamed(S1, entries))

\* "registry:<kind>:removed"
TraceRemoved(S, data, kind) ==
    LET names == extract_entry_names(data)
        S1 == CASE kind = "tool" -> [S EXCEPT !.tools = RetainNotNamed(S.tools, names)]
                [] kind = "resource" -> [S EXCEPT !.resources = RetainNotNamed(S.resources, names)]
                [] kind = "prompt" -> [S EXCEPT !.prompts = RetainNotNamed(S.prompts, names)]
                [] kind = "plugin" -> [S EXCEPT !.plugins = RetainNotNamed(S.plugins, names)]
                [] kind = "adapter" -> [S EXCEPT !.adapters = RetainNotNamed(S.adapters, names)]
    IN  update_overview_registry(LogIfNamed(S1, names))

\* an 'updated' arm that rebuilds the tools from the payload, as a reset does
TraceUpdated_AsToolReset(S, data) == TraceToolAddedOrReset(S, data, TRUE)

\* "registry:tool:updated" | "registry:resource:updated" | "registry:prompt:updated"
TraceUpdated(S, data) == LogIfNamed(S, extract_entry_names(data))

\* the `_ =>` arm: unknown trace events are only logged
TraceUnknown(S, session_id, request_id) ==
    add_log_with_context(S, "Debug", "trace", session_id, request_id)

(***************************************************************************)
(* handle_registry_event (legacy schema).  event.data: entry_names, owner  *)
(* (EntryOwner), entries (Vec<RegistryEntryInfo>), all optional.           *)
(***************************************************************************)
LegacyNames(event) ==
    IF IsSome(event.data.entry_names) THEN Get(event.data.entry_names) ELSE <<>>

\* entry.owner.as_ref().map(|o| o.kind.clone()) on a RegistryEntryInfo
LegacyResetTools(entries) ==
    [i \in DOMAIN entries |->
        ToolInfo(entries[i].name, entries[i].description, entries[i].input_schema,
                 OwnerKind(entries[i].owner), OwnerId(entries[i].owner))]
LegacyResetResources(entries) ==
    [i \in DOMAIN entries |->
        ResourceInfo(entries[i].name, entries[i].uri,
                     OwnerKind(entries[i].owner), OwnerId(entries[i].owner))]
LegacyResetPrompts(entries) ==
    [i \in DOMAIN entries |->
        PromptInfo(entries[i].name, OwnerKind(entries[i].owner), OwnerId(entries[i].owner))]
LegacyResetPlugins(entries) ==
    [i \in DOMAIN entries |->
        PluginInfo(entries[i].name, entries[i].version, OwnerId(entries[i].owner))]
LegacyResetAdapters(entries) ==
    [i \in DOMAIN entries |->
        AdapterInfo(entries[i].name, entries[i].description, OwnerId(entries[i].owner))]

\* `if let Some(entries) = &event.data.entries { clear; push each } else { clear }`
LegacyResetFrom(event) ==
    IF IsSome(event.data.entries) THEN Get(event.data.entries) ELSE <<>>

\* the match on event.event_type, before the log line and the trailing overview update
LegacyRegistryArm(S, event) ==
    LET names == LegacyNames(event)
        owner == event.data.owner
        t == event.event_type
    IN  CASE t = "ToolAdded" ->
               [S EXCEPT !.tools = S.tools \o [i \in DOMAIN names |->
                    ToolInfo(names[i], None, None, OwnerKind(owner), OwnerId(owner))]]
          [] t = "ToolRemoved" -> [S EXCEPT !.tools = RetainNotNamed(S.tools, names)]
          [] t = "ToolReset" -> [S EXCEPT !.tools = LegacyResetTools(LegacyResetFrom(event))]
          [] t = "ResourceAdded" ->
               [S EXCEPT !.resources = S.resources \o [i \in DOMAIN names |->
                    ResourceInfo(names[i], None, OwnerKind(owner), OwnerId(owner))]]
          [] t = "ResourceRemoved" -> [S EXCEPT !.resources = RetainNotNamed(S.resources, names)]
          [] t = "ResourceReset" ->
               [S EXCEPT !.resources = LegacyResetResources(LegacyResetFrom(event))]
          [] t = "PromptAdded" ->
               [S EXCEPT !.prompts = S.prompts \o [i \in DOMAIN names |->
                    PromptInfo(names[i], OwnerKind(owner), OwnerId(owner))]]
          [] t = "PromptRemoved" -> [S EXCEPT !.prompts = RetainNotNamed(S.prompts, names)]
          [] t = "PromptReset" ->
               [S EXCEPT !.prompts = LegacyResetPrompts(LegacyResetFrom(event))]
          [] t = "PluginAdded" ->
               [S EXCEPT !.plugins = S.plugins \o [i \in DOMAIN names |->
                    PluginInfo(names[i], None, OwnerId(owner))]]
          [] t = "PluginRemoved" -> [S EXCEPT !.plugins = RetainNotNamed(S.plugins, names)]
          [] t = "PluginReset" ->
               [S EXCEPT !.plugins = LegacyResetPlugins(LegacyResetFrom(event))]
          [] t = "AdapterAdded" ->
               [S EXCEPT !.adapters = S.adapters \o [i \in DOMAIN names |->
                    AdapterInfo(names[i], None, OwnerId(owner))]]
          [] t = "AdapterRemoved" -> [S EXCEPT !.adapters = RetainNotNamed(S.adapters, names)]
          [] t = "AdapterReset" ->
               [S EXCEPT !.adapters = LegacyResetAdapters(LegacyResetFrom(event))]
          \* <Kind>Updated and the four Agent* variants: log only
          [] OTHER -> S

handle_registry_event(S, event) ==
    update_overview_registry(add_log(LegacyRegistryArm(S, event), "Info", "registry"))

(***************************************************************************)
(* handle_state_snapshot                                                   *)
(***************************************************************************)
SessionInfo(id, transport_type, client_name, client_version, connected_at, auth_mode) ==
    [id |-> id, transport_type |-> transport_type, client_name |-> client_name,
     client_version |-> client_version, user_agent |-> None,
     connected_at |-> connected_at, is_active |-> TRUE, auth_mode |-> auth_mode]

\* `if let Some(ref owner) = x.owner { (kind, id) } else { ("scope", scope.id) }`
SnapOwnerKind(owner, scope) == IF IsSome(owner) THEN Some(Get(owner).kind) ELSE Some("scope")
SnapOwnerId(owner, scope) == IF IsSome(owner) THEN Some(Get(owner).id) ELSE Some(scope.id)

SnapScopeTools(scope) ==
    [i \in DOMAIN scope.tools |->
        ToolInfo(scope.tools[i].name, scope.tools[i].description, None,
                 SnapOwnerKind(scope.tools[i].owner, scope),
                 SnapOwnerId(scope.tools[i].owner, scope))]
SnapScopeResources(scope) ==
    [i \in DOMAIN scope.resources |->
        ResourceInfo(scope.resources[i].name, Some(scope.resources[i].uri),
                     SnapOwnerKind(scope.resources[i].owner, scope),
                     SnapOwnerId(scope.resources[i].owner, scope))]
SnapScopePrompts(scope) ==
    [i \in DOMAIN scope.prompts |->
        PromptInfo(scope.prompts[i].name,
                   SnapOwnerKind(scope.prompts[i].owner, scope),
                   SnapOwnerId(scope.prompts[i].owner, scope))]
SnapScopePlugins(scope) ==
    [i \in DOMAIN scope.plugins |->
        PluginInfo(scope.plugins[i].name, scope.plugins[i].version,
                   OwnerId(scope.plugins[i].owner))]
SnapScopeAdapters(scope) ==
    [i \in DOMAIN scope.adapters |->
        AdapterInfo(scope.adapters[i].name, scope.adapters[i].description,
                    OwnerId(scope.adapters[i].owner))]

\* the owner ids for which this scope's loops call app_scope_map.insert(owner.id, scope.id)
SnapScopeAppOwners(scope) ==
    LET owners == {scope.tools[i].owner : i \in DOMAIN scope.tools}
                  \cup {scope.resources[i].owner : i \in DOMAIN scope.resources}
                  \cup {scope.prompts[i].owner : i \in DOMAIN scope.prompts}
                  \cup {scope.plugins[i].owner : i \in DOMAIN scope.plugins}
                  \cup {scope.adapters[i].owner : i \in DOMAIN scope.adapters}
    IN  {Get(o).id : o \in {p \in owners :
            IsSome(p) /\ Get(p).kind = "app" /\ Get(p).id # scope.id}}

AppInfo(scope) ==
    [id |-> scope.id, name |-> scope.id, tool_count |-> Len(scope.tools),
     resource_count |-> Len(scope.resources), prompt_count |-> Len(scope.prompts),
     plugin_count |-> Len(scope.plugins)]

\* one iteration of `for scope in snapshot.scopes`
SnapScopeStep(S, scope) ==
    [S EXCEPT !.scopes = Append(S.scopes, [id |-> scope.id, name |-> scope.id]),
              !.tools = S.tools \o SnapScopeTools(scope),
              !.resources = S.resources \o SnapScopeResources(scope),
              !.prompts = S.prompts \o SnapScopePrompts(scope),
              !.plugins = S.plugins \o SnapScopePlugins(scope),
              !.adapters = S.adapters \o SnapScopeAdapters(scope),
              !.app_scope_map =
                  [a \in (DOMAIN S.app_scope_map) \cup SnapScopeAppOwners(scope) |->
                      IF a \in SnapScopeAppOwners(scope) THEN scope.id
                      ELSE S.app_scope_map[a]],
              !.apps = Append(S.apps, AppInfo(scope))]

RECURSIVE SnapScopes(_, _)
SnapScopes(S, scopes) ==
    IF scopes = <<>> THEN S ELSE SnapScopes(SnapScopeStep(S, Head(scopes)), Tail(scopes))

RECURSIVE SnapSessions(_, _)
\* `for session in snapshot.sessions`: sessions.insert and session_logs.insert(id, Vec::new())
SnapSessions(S, sessions) ==
    IF sessions = <<>> THEN S
    ELSE LET x == Head(sessions)
         IN  SnapSessions(
                [S EXCEPT !.sessions = MapInsert(S.sessions, x.session_id,
                              SessionInfo(x.session_id, Some(x.transport_type),
                                          x.client_name, x.client_version,
                                          x.connected_at, x.auth_mode)),
                          !.session_logs = MapInsert(S.session_logs, x.session_id, <<>>)],
                Tail(sessions))

\* handle_state_snapshot without `self.tools.clear()` .. `self.adapters.clear()`
SnapClear_KeepCollections(S, snapshot) ==
    [S EXCEPT !.server.name = Some(snapshot.server.name),
              !.server.version = Some(snapshot.server.version),
              !.server.is_ready = TRUE,
              !.scopes = <<>>, !.app_scope_map = <<>>]

\* the clears at store.rs:692-699 (self.apps is not among them)
SnapClear(S, snapshot) ==
    [S EXCEPT !.server.name = Some(snapshot.server.name),
              !.server.version = Some(snapshot.server.version),
              !.server.is_ready = TRUE,
              !.tools = <<>>, !.resources = <<>>, !.prompts = <<>>,
              !.plugins = <<>>, !.adapters = <<>>, !.scopes = <<>>,
              !.app_scope_map = <<>>]

handle_state_snapshot(S, snapshot) ==
    LET S1 == SnapSessions(SnapScopes(SnapClear(S, snapshot), snapshot.scopes), snapshot.sessions)
        S2 == update_overview_registry(update_overview_sessions(S1))
        S3 == [S2 EXCEPT !.overview.server_address = S2.server.address]
    IN  add_log(S3, "Info", "system")

(***************************************************************************)
(* Metrics and overview roll-ups of request outcomes                       *)
(***************************************************************************)
\* *self.tool_usage.entry(name).or_insert(0) += 1
BumpUsage(usage, name) ==
    MapInsert(usage, name, (IF name \in DOMAIN usage THEN usage[name] ELSE 0) + 1)

\* a record_request that counts a failure in the total only
record_request_TotalOnly(M, success, duration_ms, tool_name) ==
    [M EXCEPT !.total_requests = M.total_requests + 1,
              !.successful_requests = IF success THEN @ + 1 ELSE @,
              !.total_duration_ms = IF IsSome(duration_ms) THEN @ + Get(duration_ms) ELSE @,
              !.tool_usage = IF IsSome(tool_name) THEN BumpUsage(@, Get(tool_name)) ELSE @]

\* MetricsData::record_request
record_request(M, success, duration_ms, tool_name) ==
    [M EXCEPT !.total_requests = M.total_requests + 1,
              !.successful_requests = IF success THEN @ + 1 ELSE @,
              !.failed_requests = IF success THEN @ ELSE @ + 1,
              !.total_duration_ms = IF IsSome(duration_ms) THEN @ + Get(duration_ms) ELSE @,
              !.tool_usage = IF IsSome(tool_name) THEN BumpUsage(@, Get(tool_name)) ELSE @]

\* MetricsData::record_traffic
record_traffic(M, inbound, outbound) ==
    [M EXCEPT !.inbound_bytes = @ + inbound,
              !.outbound_bytes = @ + outbound,
              !.prompt_tokens = @ + (inbound \div 4),
              !.completion_tokens = @ + (outbound \div 4),
              !.total_tokens = @ + (inbound \div 4) + (outbound \div 4)]

\* Vec::truncate
Truncate(s, n) == IF Len(s) > n THEN SubSeq(s, 1, n) ELSE s

\* an add_tool_call that makes room by dropping the entry it has just inserted
add_tool_call_DropNewest(S, name, success, duration_ms) ==
    LET all == <<[name |-> name, timestamp |-> S.clock, success |-> success,
                  duration_ms |-> duration_ms]>> \o S.overview.last_tool_calls
    IN  [S EXCEPT !.overview.last_tool_calls =
                      IF Len(all) > MAX_TOOL_CALLS THEN Tail(all) ELSE all,
                  !.clock = S.clock + 1]

\* OverviewData::add_tool_call, on the DashboardState that owns the overview
add_tool_call(S, name, success, duration_ms) ==
    [S EXCEPT !.overview.last_tool_calls =
                  Truncate(<<[name |-> name, timestamp |-> S.clock, success |-> success,
                              duration_ms |-> duration_ms]>> \o @, MAX_TOOL_CALLS),
              !.clock = S.clock + 1]

\* flow_name.contains("tool"), on the flow names the model draws
FlowNames == {"tools:call-tool", "resources:read-resource"}
ContainsTool(flow_name) == flow_name \in {"tools:call-tool", "tool"}

ApiRequest(id, flow_name, method, entry_name, started_at, session_id) ==
    [id |-> id, flow_name |-> flow_name, method |-> method, entry_name |-> entry_name,
     started_at |-> started_at, duration_ms |-> None, is_error |-> FALSE,
     error_message |-> None, session_id |-> session_id]

\* a lookup that falls back to the first stored request when no id matches
FindRequest_OrFirst(requests, rid) ==
    IF \E i \in DOMAIN requests : requests[i].id = rid
    THEN CHOOSE i \in DOMAIN requests :
            requests[i].id = rid /\ \A j \in 1..(i - 1) : requests[j].id # rid
    ELSE IF requests = <<>> THEN 0 ELSE 1

\* self.requests.iter_mut().find(|r| &r.id == rid): the index of the first match, 0 when none
FindRequest(requests, rid) ==
    IF \E i \in DOMAIN requests : requests[i].id = rid
    THEN CHOOSE i \in DOMAIN requests :
            requests[i].id = rid /\ \A j \in 1..(i - 1) : requests[j].id # rid
    ELSE 0

\* the tail the complete/error arms share: metrics (record_traffic only in the legacy
\* Complete arm, traffic = Some(<<inbound, outbound>>)), overview, log line
RequestOutcome(S, flow_name, success, duration_ms, tool_name, traffic, level, sid, rid) ==
    LET is_tool_flow == ContainsTool(flow_name)
        M1 == record_request(S.metrics, success, duration_ms,
                             IF is_tool_flow THEN tool_name ELSE None)
        M2 == IF IsSome(traffic)
              THEN record_traffic(M1, Get(traffic)[1], Get(traffic)[2]) ELSE M1
        S1 == [S EXCEPT !.metrics = M2]
        S2 == IF IsSome(tool_name) /\ is_tool_flow
              THEN add_tool_call(S1, Get(tool_name), success, duration_ms)
              ELSE S1
    IN  add_log_with_context(S2, level, "api", sid, rid)

(***************************************************************************)
(* handle_trace_event: session and request arms.  event: a DevBusLogEvent  *)
(* [category, event_type, timestamp, session_id, request_id, data]         *)
(***************************************************************************)
\* `if event.session_id != "unknown" { Some(..) } else { None }`
KnownId(id) == IF id # "unknown" THEN Some(id) ELSE None

\* Option<String>::unwrap_or_default()
UnwrapOrDefault(o) == IF IsSome(o) THEN Get(o) ELSE ""

TraceSessionConnect(S, event) ==
    LET session_id == KnownId(event.session_id)
    IN  IF IsSome(session_id)
        THEN LET sid == Get(session_id)
                 S1 == [S EXCEPT
                         !.sessions = MapInsert(S.sessions, sid,
                             SessionInfo(sid, event.data.transportType, None, None,
                                         event.timestamp, event.data.authMode)),
                         !.session_logs = MapInsert(S.session_logs, sid, <<>>)]
             IN  add_log_with_context(update_overview_sessions(S1),
                                      "Info", "session", session_id, None)
        ELSE S

\* a disconnect that drops the session instead of flagging it
Deactivate_Remove(sessions, sid) ==
    [x \in (DOMAIN sessions) \ {sid} |-> sessions[x]]

\* if let Some(session) = self.sessions.get_mut(sid) { session.is_active = false }
Deactivate(sessions, sid) ==
    IF sid \in DOMAIN sessions
    THEN [sessions EXCEPT ![sid].is_active = FALSE]
    ELSE sessions

TraceSessionDisconnect(S, event) ==
    LET session_id == KnownId(event.session_id)
    IN  IF IsSome(session_id)
        THEN LET S1 == [S EXCEPT !.sessions = Deactivate(S.sessions, Get(session_id))]
             IN  add_log_with_context(update_overview_sessions(S1),
                                      "Info", "session", session_id, None)
        ELSE S

\* data.flowName ... .unwrap_or("unknown")
TraceFlowName(data) == IF IsSome(data.flowName) THEN Get(data.flowName) ELSE "unknown"

TraceRequestStart(S, event) ==
    LET session_id == KnownId(event.session_id)
        request_id == KnownId(event.request_id)
        request == ApiRequest(UnwrapOrDefault(request_id), TraceFlowName(event.data),
                              event.data.method, event.data.entryName,
                              event.timestamp, session_id)
    IN  add_log_with_context([S EXCEPT !.requests = Append(S.requests, request)],
                             "Info", "api", session_id, request_id)

\* "request:complete" (is_err = FALSE) and "request:error" (is_err = TRUE)
TraceRequestDone(S, event, is_err) ==
    LET session_id == KnownId(event.session_id)
        request_id == KnownId(event.request_id)
        duration_ms == event.data.durationMs
        entry_name == event.data.entryName
        error_msg == IF IsSome(event.data.errorMessage)
                     THEN Get(event.data.errorMessage) ELSE "Unknown error"
        i == IF IsSome(request_id) THEN FindRequest(S.requests, Get(request_id)) ELSE 0
        requests == IF i = 0 THEN S.requests
                    ELSE [S.requests EXCEPT
                            ![i].duration_ms = duration_ms,
                            ![i].is_error = IF is_err THEN TRUE ELSE @,
                            ![i].error_message = IF is_err THEN Some(error_msg) ELSE @,
                            ![i].entry_name = IF IsSome(entry_name) THEN entry_name ELSE @]
        tool_name == IF i = 0 THEN entry_name ELSE requests[i].entry_name
    IN  RequestOutcome([S EXCEPT !.requests = requests], TraceFlowName(event.data),
                       ~is_err, duration_ms, tool_name, None,
                       IF is_err THEN "Error" ELSE "Info", session_id, request_id)

(***************************************************************************)
(* Legacy schema: handle_session_event and handle_request_event.  event:   *)
(* [category, event_type, base: [timestamp, session_id, request_id], data] *)
(***************************************************************************)
handle_session_event(S, event) ==
    LET session_id == event.data.session_id
        t == event.event_type
    IN  CASE t = "Connect" ->
               LET S1 == [S EXCEPT
                           !.sessions = MapInsert(S.sessions, session_id,
                               SessionInfo(session_id, event.data.transport_type,
                                           event.data.client_name, event.data.client_version,
                                           event.base.timestamp, event.data.auth_mode)),
                           !.session_logs = MapInsert(S.session_logs, session_id, <<>>)]
               IN  add_log_with_context(update_overview_sessions(S1),
                                        "Info", "session", Some(session_id), None)
          [] t = "Disconnect" ->
               LET S1 == [S EXCEPT !.sessions = Deactivate(S.sessions, session_id)]
               IN  add_log_with_context(update_overview_sessions(S1),
                                        "Info", "session", Some(session_id), None)
          \* Idle | Active
          [] OTHER -> add_log_with_context(S, "Debug", "session", Some(session_id), None)

\* request_body.and_then(to_string).map(len).unwrap_or(0), the body given by its length
BodyLen(body) == IF IsSome(body) THEN Get(body) ELSE 0

handle_request_event(S, event) ==
    LET session_id == event.base.session_id
        request_id == event.base.request_id
        d == event.data
        t == event.event_type
        i == IF IsSome(request_id) THEN FindRequest(S.requests, Get(request_id)) ELSE 0
        is_err == IF t = "Error" THEN TRUE
                  ELSE IF IsSome(d.is_error) THEN Get(d.is_error) ELSE FALSE
        requests == IF i = 0 THEN S.requests
                    ELSE [S.requests EXCEPT
                            ![i].duration_ms = d.duration_ms,
                            ![i].is_error = is_err,
                            ![i].error_message = IF t = "Error" THEN d.error_message ELSE @,
                            ![i].entry_name = IF IsSome(d.entry_name) THEN d.entry_name ELSE @]
        tool_name == IF i = 0 THEN d.entry_name ELSE requests[i].entry_name
    IN  CASE t = "Start" ->
               add_log_with_context(
                   [S EXCEPT !.requests = Append(S.requests,
                        ApiRequest(UnwrapOrDefault(request_id), d.flow_name, d.method,
                                   d.entry_name, event.base.timestamp, session_id))],
                   "Info", "api", session_id, request_id)
          [] t = "Complete" ->
               RequestOutcome([S EXCEPT !.requests = requests], d.flow_name, ~is_err,
                              d.duration_ms, tool_name,
                              Some(<<BodyLen(d.request_body), BodyLen(d.response_body)>>),
                              "Info", session_id, request_id)
          [] t = "Error" ->
               RequestOutcome([S EXCEPT !.requests = requests], d.flow_name, FALSE,
                              d.duration_ms, tool_name, None,
                              "Error", session_id, request_id)

(***************************************************************************)
(* handle_trace_event: tool, server and config arms, and the dispatch      *)
(***************************************************************************)
\* an address is the sequence of its ':'-separated segments, each [numeric, value]:
\* numeric when it is all digits, value its number.  `addr.rsplit(':').next()` is the
\* last segment, and `parse::<u16>()` takes a number up to 65535
ParsePort(addr) ==
    LET port_str == addr[Len(addr)]
    IN  IF port_str.numeric /\ port_str.value <= 65535 THEN Some(port_str.value) ELSE None

SetAddress(S, address) ==
    [S EXCEPT !.server.address = address,
              !.overview.server_address = address,
              !.overview.server_port =
                  IF IsSome(address) /\ IsSome(ParsePort(Get(address)))
                  THEN ParsePort(Get(address)) ELSE @]

TraceToolComplete(S, event) ==
    LET entry_name == IF IsSome(event.data.entryName)
                      THEN Get(event.data.entryName) ELSE "unknown"
        duration_ms == event.data.durationMs
        S1 == [S EXCEPT !.metrics =
                  record_request(S.metrics, TRUE, duration_ms, Some(entry_name))]
    IN  add_log_with_context(add_tool_call(S1, entry_name, TRUE, duration_ms),
                             "Info", "tool", KnownId(event.session_id),
                             KnownId(event.request_id))

RegistryKinds == {"tool", "resource", "prompt", "plugin", "adapter"}

handle_trace_event(S, event) ==
    LET t == event.event_type
        data == event.data
        session_id == KnownId(event.session_id)
        request_id == KnownId(event.request_id)
    IN  CASE t = "session:connect" -> TraceSessionConnect(S, event)
          [] t = "session:disconnect" -> TraceSessionDisconnect(S, event)
          [] t = "request:start" -> TraceRequestStart(S, event)
          [] t = "request:complete" -> TraceRequestDone(S, event, FALSE)
          [] t = "request:error" -> TraceRequestDone(S, event, TRUE)
          [] t = "tool:execute" ->
               add_log_with_context(S, "Info", "tool", session_id, request_id)
          [] t = "tool:complete" -> TraceToolComplete(S, event)
          [] t = "server:starting" ->
               add_log([S EXCEPT !.server.is_ready = FALSE], "Info", "server")
          [] t = "server:ready" ->
               add_log(SetAddress([S EXCEPT !.server.is_ready = TRUE], data.address),
                       "Info", "server")
          [] t = "server:shutdown" ->
               add_log([S EXCEPT !.server.is_ready = FALSE,
                                 !.server.uptime_ms = data.uptimeMs], "Info", "server")
          [] t = "config:loaded" ->
               add_log([S EXCEPT !.config.is_loaded = TRUE], "Info", "config")
          [] t = "config:error" -> add_log(S, "Error", "config")
          [] t = "registry:tool:added" -> TraceToolAddedOrReset(S, data, FALSE)
          [] t = "registry:tool:reset" -> TraceToolAddedOrReset(S, data, TRUE)
          [] t = "registry:resource:added" -> TraceResourceAddedOrReset(S, data, FALSE)
          [] t = "registry:resource:reset" -> TraceResourceAddedOrReset(S, data, TRUE)
          [] t = "registry:prompt:added" -> TracePromptAddedOrReset(S, data, FALSE)
          [] t = "registry:prompt:reset" -> TracePromptAddedOrReset(S, data, TRUE)
          [] t = "registry:plugin:added" -> TracePluginAddedOrReset(S, data, FALSE)
          [] t = "registry:plugin:reset" -> TracePluginAddedOrReset(S, data, TRUE)
          [] t = "registry:adapter:added" -> TraceAdapterAddedOrReset(S, data, FALSE)
          [] t = "registry:adapter:reset" -> TraceAdapterAddedOrReset(S, data, TRUE)
          [] t = "registry:tool:removed" -> TraceRemoved(S, data, "tool")
          [] t = "registry:resource:removed" -> TraceRemoved(S, data, "resource")
          [] t = "registry:prompt:removed" -> TraceRemoved(S, data, "prompt")
          [] t = "registry:plugin:removed" -> TraceRemoved(S, data, "plugin")
          [] t = "registry:adapter:removed" -> TraceRemoved(S, data, "adapter")
          [] t \in {"registry:tool:updated", "registry:resource:updated",
                    "registry:prompt:updated"} -> TraceUpdated(S, data)
          [] OTHER -> TraceUnknown(S, session_id, request_id)

\* level_name -> LogLevel; an empty prefix reads "sdk"
handle_log_event(S, event) ==
    LET level == CASE event.level_name = Some("error") -> "Error"
                   [] event.level_name = Some("warn") -> "Warn"
                   [] event.level_name \in {Some("debug"), Some("verbose")} -> "Debug"
                   [] OTHER -> "Info"
        source == IF event.prefix = "" THEN "sdk" ELSE event.prefix
    IN  add_log_with_context(S, level, source, KnownId(event.session_id),
                             KnownId(event.request_id))

\* a handle_log_transport_event that counts only the categories it dispatches
handle_log_transport_event_CountDispatched(S, event) ==
    LET S1 == [S EXCEPT !.events_received = @ + 1]
    IN  IF event.category = "trace" THEN handle_trace_event(S1, event)
        ELSE IF event.category = "log" THEN handle_log_event(S1, event)
        ELSE S

handle_log_transport_event(S, event) ==
    LET S1 == [S EXCEPT !.events_received = @ + 1]
    IN  IF event.category = "trace" THEN handle_trace_event(S1, event)
        ELSE IF event.category = "log" THEN handle_log_event(S1, event)
        ELSE S1

handle_server_event(S, event) ==
    LET t == event.event_type
        d == event.data
    IN  CASE t = "Starting" ->
               add_log([S EXCEPT !.server.is_ready = FALSE], "Info", "server")
          [] t = "Ready" ->
               add_log(SetAddress([S EXCEPT !.server.is_ready = TRUE,
                                            !.server.name = d.server_name,
                                            !.server.version = d.server_version],
                                  d.address), "Info", "server")
          [] t = "Error" -> add_log([S EXCEPT !.server.error = d.error], "Error", "server")
          [] t = "Shutdown" ->
               add_log([S EXCEPT !.server.is_ready = FALSE,
                                 !.server.uptime_ms = d.uptime_ms], "Info", "server")

\* only is_loaded of ConfigState is kept
handle_config_event(S, event) ==
    CASE event.event_type = "Loaded" ->
           add_log([S EXCEPT !.config.is_loaded = TRUE], "Info", "config")
      [] event.event_type = "Error" -> add_log(S, "Error", "config")
      [] event.event_type = "Missing" -> add_log(S, "Warn", "config")

handle_event(S, event) ==
    LET S1 == [S EXCEPT !.events_received = @ + 1]
    IN  CASE event.category = "session" -> handle_session_event(S1, event)
          [] event.category = "request" -> handle_request_event(S1, event)
          [] event.category = "registry" -> handle_registry_event(S1, event)
          [] event.category = "server" -> handle_server_event(S1, event)
          [] event.category = "config" -> handle_config_event(S1, event)

\* `if len >= 5 { remove(0) }; push`
add_error(S, error) ==
    LET S1 == [S EXCEPT !.parse_failures = @ + 1,
                        !.recent_errors =
                            Append(IF Len(@) >= RECENT_ERRORS_CAP THEN Tail(@) ELSE @, error)]
    IN  add_log(S1, "Error", "system")

\* event: [kind |-> "Legacy" | "LogTransport" | "Error", e |-> the payload]
handle_unified_event(S, event) ==
    CASE event.kind = "Legacy" -> handle_event(S, event.e)
      [] event.kind = "LogTransport" -> handle_log_transport_event(S, event.e)
      [] event.kind = "Error" -> add_error(S, event.e)

\* update_system_metrics that drops the newest sample instead of the oldest
update_system_metrics_DropNewest(M, cpu, memory) ==
    [M EXCEPT !.current_cpu = cpu,
              !.current_memory = memory,
              !.cpu_history = IF Len(@) >= METRICS_HISTORY_SIZE THEN @ ELSE Append(@, cpu),
              !.memory_history = IF Len(@) >= METRICS_HISTORY_SIZE THEN @
                                 ELSE Append(@, memory)]

\* MetricsData::update_system_metrics
update_system_metrics(M, cpu, memory) ==
    [M EXCEPT !.current_cpu = cpu,
              !.current_memory = memory,
              !.cpu_history = PushCapped(@, cpu, METRICS_HISTORY_SIZE),
              !.memory_history = PushCapped(@, memory, METRICS_HISTORY_SIZE)]

(***************************************************************************)
(* Inputs: the events a server can put on the wire, as small families      *)
(***************************************************************************)
TraceEvent(event_type, session_id, request_id, data) ==
    [category |-> "trace", event_type |-> event_type, timestamp |-> 0,
     session_id |-> session_id, request_id |-> request_id, data |-> data,
     level_name |-> None, prefix |-> ""]

LogTransport(e) == [kind |-> "LogTransport", e |-> e]
Legacy(e) == [kind |-> "Legacy", e |-> e]

Changes == {"added", "removed", "reset", "updated"}

\* a rich entry of a registry payload, the same fields in both schemas
RichEntry(name, owner) ==
    [name |-> name, description |-> Some("d"), inputSchema |-> None,
     input_schema |-> None, uri |-> None, version |-> None, owner |-> owner]

AppOwner(id) == Some([kind |-> "app", id |-> id])

\* registry payloads (names / entries / owner): bare names, rich entries whose own
\* owner differs from the event's, and a single bare name without owner
RegistryPayloads ==
    { [names |-> Some(<<"a", "b">>), entries |-> None, owner |-> AppOwner("A1")],
      [names |-> None, entries |-> Some(<<RichEntry("b", AppOwner("A1"))>>),
       owner |-> AppOwner("A2")],
      [names |-> Some(<<"a">>), entries |-> None, owner |-> None] }

PayloadNames(p) ==
    IF IsSome(p.entries) THEN Range(NameSeq(Get(p.entries)))
    ELSE IF IsSome(p.names) THEN Range(Get(p.names)) ELSE {}

TraceRegistryEvent(kind, change, p) ==
    TraceEvent(
        CASE kind = "tool" /\ change = "added" -> "registry:tool:added"
          [] kind = "tool" /\ change = "removed" -> "registry:tool:removed"
          [] kind = "tool" /\ change = "reset" -> "registry:tool:reset"
          [] kind = "tool" /\ change = "updated" -> "registry:tool:updated"
          [] kind = "resource" /\ change = "added" -> "registry:resource:added"
          [] kind = "resource" /\ change = "removed" -> "registry:resource:removed"
          [] kind = "resource" /\ change = "reset" -> "registry:resource:reset"
          [] kind = "resource" /\ change = "updated" -> "registry:resource:updated"
          [] kind = "prompt" /\ change = "added" -> "registry:prompt:added"
          [] kind = "prompt" /\ change = "removed" -> "registry:prompt:removed"
          [] kind = "prompt" /\ change = "reset" -> "registry:prompt:reset"
          [] kind = "prompt" /\ change = "updated" -> "registry:prompt:updated"
          [] kind = "plugin" /\ change = "added" -> "registry:plugin:added"
          [] kind = "plugin" /\ change = "removed" -> "registry:plugin:removed"
          [] kind = "plugin" /\ change = "reset" -> "registry:plugin:reset"
          [] kind = "plugin" /\ change = "updated" -> "registry:plugin:updated"
          [] kind = "adapter" /\ change = "added" -> "registry:adapter:added"
          [] kind = "adapter" /\ change = "removed" -> "registry:adapter:removed"
          [] kind = "adapter" /\ change = "reset" -> "registry:adapter:reset"
          [] kind = "adapter" /\ change = "updated" -> "registry:adapter:updated",
        "unknown", "unknown",
        [NoData EXCEPT !.entryNames = p.names, !.entries = p.entries, !.owner = p.owner])

LegacyRegistryEvent(kind, change, p) ==
    [category |-> "registry",
     event_type |->
        CASE kind = "tool" /\ change = "added" -> "ToolAdded"
          [] kind = "tool" /\ change = "removed" -> "ToolRemoved"
          [] kind = "tool" /\ change = "reset" -> "ToolReset"
          [] kind = "tool" /\ change = "updated" -> "ToolUpdated"
          [] kind = "resource" /\ change = "added" -> "ResourceAdded"
          [] kind = "resource" /\ change = "removed" -> "ResourceRemoved"
          [] kind = "resource" /\ change = "reset" -> "ResourceReset"
          [] kind = "resource" /\ change = "updated" -> "ResourceUpdated"
          [] kind = "prompt" /\ change = "added" -> "PromptAdded"
          [] kind = "prompt" /\ change = "removed" -> "PromptRemoved"
          [] kind = "prompt" /\ change = "reset" -> "PromptReset"
          [] kind = "prompt" /\ change = "updated" -> "PromptUpdated"
          [] kind = "plugin" /\ change = "added" -> "PluginAdded"
          [] kind = "plugin" /\ change = "removed" -> "PluginRemoved"
          [] kind = "plugin" /\ change = "reset" -> "PluginReset"
          [] kind = "plugin" /\ change = "updated" -> "PluginUpdated"
          [] kind = "adapter" /\ change = "added" -> "AdapterAdded"
          [] kind = "adapter" /\ change = "removed" -> "AdapterRemoved"
          [] kind = "adapter" /\ change = "reset" -> "AdapterReset"
          [] kind = "adapter" /\ change = "updated" -> "AdapterUpdated",
     base |-> [timestamp |-> 0, session_id |-> None, request_id |-> None],
     data |-> [entry_names |-> p.names, owner |-> p.owner, entries |-> p.entries]]

\* the collection of a registry kind
Collection(S, kind) ==
    CASE kind = "tool" -> S.tools
      [] kind = "resource" -> S.resources
      [] kind = "prompt" -> S.prompts
      [] kind = "plugin" -> S.plugins
      [] kind = "adapter" -> S.adapters

SnapItem(name, owner) ==
    [name |-> name, description |-> Some("d"), uri |-> "u", version |-> Some("1"),
     owner |-> owner]

SnapScope(id, tools, resources, prompts, plugins, adapters) ==
    [id |-> id, tools |-> tools, resources |-> resources, prompts |-> prompts,
     plugins |-> plugins, adapters |-> adapters]

SnapSession(id) ==
    [session_id |-> id, transport_type |-> "sse", client_name |-> Some("c"),
     client_version |-> Some("1"), connected_at |-> 0, auth_mode |-> None]

\* state snapshots: empty; one scope; two scopes that share names and app owners
Snapshots ==
    { [server |-> [name |-> "srv", version |-> "1"], scopes |-> <<>>, sessions |-> <<>>],
      [server |-> [name |-> "srv", version |-> "1"],
       scopes |-> <<SnapScope("s1", <<SnapItem("a", AppOwner("A1"))>>,
                              <<SnapItem("c", None)>>, <<SnapItem("a", None)>>,
                              <<SnapItem("p", AppOwner("A1"))>>, <<>>)>>,
       sessions |-> <<SnapSession("x1")>>],
      [server |-> [name |-> "srv", version |-> "2"],
       scopes |-> <<SnapScope("s1", <<SnapItem("b", AppOwner("A2")), SnapItem("c", None)>>,
                              <<SnapItem("b", AppOwner("A1"))>>, <<>>, <<>>,
                              <<SnapItem("d", AppOwner("s1"))>>),
                    SnapScope("s2", <<SnapItem("b", AppOwner("A1"))>>, <<>>,
                              <<SnapItem("c", AppOwner("A2"))>>, <<>>, <<>>)>>,
       sessions |-> <<>>] }

\* the entries a snapshot carries for one kind, over all its scopes, in order
RECURSIVE SnapshotEntries(_, _)
SnapshotEntries(scopes, kind) ==
    IF scopes = <<>> THEN <<>>
    ELSE (CASE kind = "tool" -> Head(scopes).tools
            [] kind = "resource" -> Head(scopes).resources
            [] kind = "prompt" -> Head(scopes).prompts
            [] kind = "plugin" -> Head(scopes).plugins
            [] kind = "adapter" -> Head(scopes).adapters)
         \o SnapshotEntries(Tail(scopes), kind)

(***************************************************************************)
(* The registry fold: App::run's consumer hands registry events of either  *)
(* schema, and state snapshots, to the Store                               *)
(***************************************************************************)
\* App::new, before run(): no environment read, no channel written, no reader task.
\* pc is App::run's position; env_socket / env_pipe say whether FRONTMCP_SOCKET_PATH /
\* FRONTMCP_EVENT_PIPE are set; tx, log_tx, state_tx, response_tx are the channels;
\* pipe_connected, lines_read, parse_failures are the shared atomics.
\* line is the socket reader's String buffer (the fragments of records it holds) and
\* unread the record whose remaining bytes are still to arrive on the socket.
\* pipe_unread is the line of the pipe file whose remaining bytes the server has yet to
\* append when the tailer has read up to end-of-file.
\* metrics_tx is the sampler's channel, ticks the samples taken, sampler_ended whether
\* the sampler's loop has been left, rx_dropped whether run() has returned and dropped
\* the receivers.
\* the threads that hold a clone of the SocketClientHandle
Callers == {"c1", "c2", "c3"}

\* SocketClientHandle::new: the mutex-protected writer and the command counter.
\* writer_lock is the caller inside the mutex; wire is what has been written to the
\* stream, a command line in two chunks ("head", and "tail" ending in the newline);
\* caller[c] is c's position in send_command and the id it minted; returned are the
\* ids send_command has returned, in the order of the returns.
HandleDefault ==
    [writer_lock |-> None, command_counter |-> 0, wire |-> <<>>, broken |-> FALSE,
     caller |-> [c \in Callers |-> [pc |-> "idle", id |-> 0]], returned |-> <<>>]

AppDefault ==
    [pc |-> "new", env_socket |-> FALSE, env_pipe |-> FALSE,
     attempts |-> 0, socket_reader |-> FALSE, pipe_reader |-> "none",
     tx |-> <<>>, log_tx |-> <<>>, state_tx |-> <<>>, response_tx |-> <<>>,
     pipe_connected |-> FALSE, lines_read |-> 0, parse_failures |-> 0,
     lines_fed |-> 0, messages_fed |-> 0, handle |-> HandleDefault,
     line |-> <<>>, unread |-> None, pipe_unread |-> None,
     metrics_tx |-> <<>>, ticks |-> 0, sampler_ended |-> FALSE, rx_dropped |-> FALSE]

NoOp == [n |-> 0, op |-> "init", kind |-> "", change |-> "", payload |-> None]

Init ==
    /\ state = DashboardStateDefault
    /\ app = AppDefault
    /\ last = NoOp

TraceRegistry ==
    \E kind \in RegistryKinds, change \in Changes, p \in RegistryPayloads :
        /\ last.n < MaxRegistryEvents
        /\ state' = handle_unified_event(state, LogTransport(TraceRegistryEvent(kind, change, p)))
        /\ last' = [n |-> last.n + 1, op |-> "trace", kind |-> kind, change |-> change, payload |-> Some(p)]
        /\ UNCHANGED app

LegacyRegistry ==
    \E kind \in RegistryKinds, change \in Changes, p \in RegistryPayloads :
        /\ last.n < MaxRegistryEvents
        /\ state' = handle_unified_event(state, Legacy(LegacyRegistryEvent(kind, change, p)))
        /\ last' = [n |-> last.n + 1, op |-> "legacy", kind |-> kind, change |-> change, payload |-> Some(p)]
        /\ UNCHANGED app

StateSnapshot ==
    \E snapshot \in Snapshots :
        /\ last.n < MaxRegistryEvents
        /\ state' = handle_state_snapshot(state, snapshot)
        /\ last' = [n |-> last.n + 1, op |-> "snapshot", kind |-> "", change |-> "",
                    payload |-> Some(snapshot)]
        /\ UNCHANGED app

NextRegistry == TraceRegistry \/ LegacyRegistry \/ StateSnapshot

SpecRegistry == Init /\ [][NextRegistry]_vars

(***************************************************************************)
(* Properties of the registry fold                                         *)
(***************************************************************************)
IsRegistryOp(l) == l.op \in {"trace", "legacy"}

\* C1: an 'added' event whose names are all already present in the collection of its
\* kind leaves that collection unchanged, for every kind and for both schemas.
C1_AddedIsNoOp ==
    [][(/\ IsRegistryOp(last') /\ last'.change = "added"
        /\ PayloadNames(Get(last'.payload)) \subseteq Names(Collection(state, last'.kind)))
       => Collection(state', last'.kind) = Collection(state, last'.kind)]_vars

\* a legacy 'added' event has just left two entries of one name in its collection
C1_LegacyAddDuplicates ==
    /\ last.op = "legacy" /\ last.change = "added"
    /\ \E i, j \in DOMAIN Collection(state, last.kind) :
          i # j /\ Collection(state, last.kind)[i].name = Collection(state, last.kind)[j].name

\* C2: right after a 'reset' event the set of names held for its kind is the set of
\* names the payload carries (rich entries, or bare entryNames), kind and schema alike.
C2_ResetReplacesNames ==
    (IsRegistryOp(last) /\ last.change = "reset")
        => Names(Collection(state, last.kind)) = PayloadNames(Get(last.payload))

\* a legacy 'reset' that carried bare names has just left its collection empty
C2_LegacyBareResetEmpties ==
    /\ last.op = "legacy" /\ last.change = "reset"
    /\ IsSome(Get(last.payload).names)
    /\ Collection(state, last.kind) = <<>>

\* C3: right after handle_state_snapshot the tools, resources, prompts, plugins,
\* adapters and scopes are exactly the snapshot's, in the snapshot's order.
C3_SnapshotReplaces ==
    last.op = "snapshot" =>
        LET snapshot == Get(last.payload)
        IN  /\ \A kind \in RegistryKinds :
                 NameSeq(Collection(state, kind)) =
                     NameSeq(SnapshotEntries(snapshot.scopes, kind))
            /\ [i \in DOMAIN state.scopes |-> state.scopes[i].id] =
                   [i \in DOMAIN snapshot.scopes |-> snapshot.scopes[i].id]

\* a two-scope snapshot has been applied on top of a registry event that was logged
C3_SnapshotOverEarlierEntries ==
    /\ last.op = "snapshot" /\ Len(Get(last.payload).scopes) = 2
    /\ \E i \in DOMAIN state.logs : state.logs[i].source = "registry"
    /\ Len(state.tools) = 3

\* the distinct ids of 'app'-kind owners over tools and resources, read off the state
DistinctAppOwners(S) ==
    {id \in {"A1", "A2", "s1", "s2", "P1"} :
        \/ \E i \in DOMAIN S.tools :
              S.tools[i].owner_kind = Some("app") /\ S.tools[i].owner_id = Some(id)
        \/ \E i \in DOMAIN S.resources :
              S.resources[i].owner_kind = Some("app") /\ S.resources[i].owner_id = Some(id)}

\* C6: after every fold overview.registered_apps is the number of distinct 'app'-kind
\* owner ids on tools and resources, and recomputing it changes nothing.
C6_RegisteredAppsIsDistinctOwners ==
    /\ state.overview.registered_apps = Cardinality(DistinctAppOwners(state))
    /\ update_overview_registry(state) = state

\* two distinct app owners counted over three entries spread on tools and resources
C6_TwoAppsOverToolsAndResources ==
    /\ state.overview.registered_apps = 2
    /\ state.resources # <<>> /\ state.tools # <<>>
    /\ Len(state.tools) + Len(state.resources) >= 3

(***************************************************************************)
(* The session fold: connects and disconnects of either schema, and        *)
(* snapshots that carry sessions                                           *)
(***************************************************************************)
LegacySessionEvent(event_type, session_id) ==
    [category |-> "session", event_type |-> event_type,
     base |-> [timestamp |-> 0, session_id |-> Some(session_id), request_id |-> None],
     data |-> [session_id |-> session_id, transport_type |-> Some("sse"),
               client_name |-> Some("c"), client_version |-> Some("1"),
               auth_mode |-> None]]

TraceSession ==
    \E t \in {"connect", "disconnect"}, sid \in SessionIds \cup {"unknown"} :
        /\ last.n < MaxSessionEvents
        /\ state' = handle_unified_event(state, LogTransport(
               TraceEvent(IF t = "connect" THEN "session:connect" ELSE "session:disconnect",
                          sid, "unknown",
                          [NoData EXCEPT !.transportType = Some("sse")])))
        /\ last' = [n |-> last.n + 1, op |-> "trace", kind |-> "session", change |-> t,
                    payload |-> Some(sid)]
        /\ UNCHANGED app

LegacySession ==
    \E t \in {"Connect", "Disconnect", "Idle", "Active"}, sid \in SessionIds :
        /\ last.n < MaxSessionEvents
        /\ state' = handle_unified_event(state, Legacy(LegacySessionEvent(t, sid)))
        /\ last' = [n |-> last.n + 1, op |-> "legacy", kind |-> "session",
                    change |-> CASE t = "Connect" -> "connect"
                                 [] t = "Disconnect" -> "disconnect"
                                 [] OTHER -> "activity",
                    payload |-> Some(sid)]
        /\ UNCHANGED app

SessionSnapshot ==
    \E snapshot \in Snapshots :
        /\ last.n < MaxSessionEvents
        /\ state' = handle_state_snapshot(state, snapshot)
        /\ last' = [n |-> last.n + 1, op |-> "snapshot", kind |-> "", change |-> "",
                    payload |-> Some(snapshot)]
        /\ UNCHANGED app

NextSession == TraceSession \/ LegacySession \/ SessionSnapshot

SpecSession == Init /\ [][NextSession]_vars

\* C7: a disconnect for a stored session clears its active flag and deletes nothing (the
\* session stays, every other session is untouched, overview.total_sessions is the same
\* before and after); no step of any kind removes a session id.
C7_DisconnectKeepsSession ==
    [][/\ DOMAIN state.sessions \subseteq DOMAIN state'.sessions
       /\ (/\ last'.kind = "session" /\ last'.change = "disconnect"
           /\ Get(last'.payload) \in DOMAIN state.sessions)
          => /\ state'.sessions =
                   [state.sessions EXCEPT ![Get(last'.payload)].is_active = FALSE]
             /\ state'.overview.total_sessions = state.overview.total_sessions
             /\ state'.overview.total_sessions = Cardinality(DOMAIN state'.sessions)]_vars

\* a disconnect has just been folded for a stored session while another one stays active
C7_DisconnectedAmongActive ==
    /\ last.kind = "session" /\ last.change = "disconnect"
    /\ Get(last.payload) \in DOMAIN state.sessions
    /\ ~state.sessions[Get(last.payload)].is_active
    /\ state.overview.total_sessions = 2
    /\ state.overview.active_sessions = 1

(***************************************************************************)
(* The request fold: start, complete and error of either schema            *)
(***************************************************************************)
RequestIds == {"r1", "r2"}
EntryNames == {None, Some("n1"), Some("n2")}

TraceRequestEvent(change, rid, entry_name) ==
    TraceEvent(CASE change = "start" -> "request:start"
                 [] change = "complete" -> "request:complete"
                 [] change = "error" -> "request:error",
               "unknown", rid,
               [NoData EXCEPT !.flowName = Some("tools:call-tool"),
                              !.entryName = entry_name,
                              !.durationMs = IF change = "start" THEN None ELSE Some(5)])

LegacyRequestEvent(change, rid, entry_name) ==
    [category |-> "request",
     event_type |-> CASE change = "start" -> "Start"
                      [] change = "complete" -> "Complete"
                      [] change = "error" -> "Error",
     base |-> [timestamp |-> 0, session_id |-> None, request_id |-> KnownId(rid)],
     data |-> [flow_name |-> "tools:call-tool", method |-> None,
               entry_name |-> entry_name,
               duration_ms |-> IF change = "start" THEN None ELSE Some(5),
               is_error |-> None,
               error_message |-> IF change = "error" THEN Some("boom") ELSE None,
               request_body |-> IF change = "complete" THEN Some(8) ELSE None,
               response_body |-> None]]

TraceRequest ==
    \E change \in {"start", "complete", "error"}, rid \in RequestIds, name \in EntryNames :
        /\ last.n < MaxRequestEvents
        /\ state' = handle_unified_event(state,
                        LogTransport(TraceRequestEvent(change, rid, name)))
        /\ last' = [n |-> last.n + 1, op |-> "trace", kind |-> "request",
                    change |-> change, payload |-> Some([id |-> rid, entry_name |-> name])]
        /\ UNCHANGED app

LegacyRequest ==
    \E change \in {"start", "complete", "error"}, rid \in RequestIds, name \in EntryNames :
        /\ last.n < MaxRequestEvents
        /\ state' = handle_unified_event(state, Legacy(LegacyRequestEvent(change, rid, name)))
        /\ last' = [n |-> last.n + 1, op |-> "legacy", kind |-> "request",
                    change |-> change, payload |-> Some([id |-> rid, entry_name |-> name])]
        /\ UNCHANGED app

\* events that carry no request id (drawn as rid "unknown", which the trace schema
\* sends literally and the legacy schema leaves out)
RequestNoId ==
    \E change \in {"start", "complete", "error"}, legacy \in BOOLEAN :
        /\ last.n < MaxRequestEvents
        /\ state' = handle_unified_event(state,
                        IF legacy THEN Legacy(LegacyRequestEvent(change, "unknown", None))
                        ELSE LogTransport(TraceRequestEvent(change, "unknown", None)))
        /\ last' = [n |-> last.n + 1, op |-> IF legacy THEN "legacy" ELSE "trace",
                    kind |-> "request", change |-> change,
                    payload |-> Some([id |-> "unknown", entry_name |-> None])]
        /\ UNCHANGED app

NextRequest == TraceRequest \/ LegacyRequest \/ RequestNoId

SpecRequest == Init /\ [][NextRequest]_vars

\* C4: when a complete or error event is folded, every stored ApiRequest that a start
\* with the same request id created ends with the event's entry name if the event
\* carries one, and keeps the entry name it had otherwise - also when the id was
\* started more than once.
C4_EntryNameFollowsLaterEvent ==
    [][(last'.kind = "request" /\ last'.change \in {"complete", "error"})
       => \A i \in DOMAIN state.requests :
             state.requests[i].id = Get(last'.payload).id
             => state'.requests[i].entry_name =
                    IF IsSome(Get(last'.payload).entry_name)
                    THEN Get(last'.payload).entry_name
                    ELSE state.requests[i].entry_name]_vars

\* a complete/error event that named an entry has been folded, and a stored request with
\* its id still carries another entry name
C4_LaterStartKeepsStaleName ==
    /\ last.kind = "request" /\ last.change \in {"complete", "error"}
    /\ IsSome(Get(last.payload).entry_name)
    /\ \E i \in DOMAIN state.requests :
          /\ state.requests[i].id = Get(last.payload).id
          /\ state.requests[i].entry_name # Get(last.payload).entry_name

(***************************************************************************)
(* The ring buffers under a long run: one session's log lines and the      *)
(* metrics collector's samples.  Samples are a ramp (the k-th sample is k) *)
(* and log timestamps are the logical clock, so position tells age.        *)
(***************************************************************************)
\* App::run: `while let Ok(event) = rx.try_recv()`.  The consumer drains the event
\* channel, then the metrics channel, in turn; the run takes a drain to be a full
\* channel, so events are folded while the sample count is a multiple of
\* METRICS_CHANNEL_CAPACITY and samples while the event count is a multiple of
\* EVENT_CHANNEL_CAPACITY.
RingLog ==
    /\ state.clock < MaxRingLogs
    /\ state.metrics.current_cpu % METRICS_CHANNEL_CAPACITY = 0
    /\ state' = handle_unified_event(state, LogTransport(
           TraceEvent("tool:execute", "x1", "unknown", NoData)))
    /\ last' = [n |-> last.n + 1, op |-> "trace", kind |-> "tool", change |-> "execute",
                payload |-> None]
    /\ UNCHANGED app

\* App::run: `while let Ok((cpu, memory)) = metrics_rx.try_recv()`
RingMetrics ==
    /\ state.metrics.current_cpu < MaxSamples
    /\ state.events_received % EVENT_CHANNEL_CAPACITY = 0
    /\ state' = [state EXCEPT !.metrics =
                    update_system_metrics(@, @.current_cpu + 1, @.current_memory + 1)]
    /\ last' = [n |-> last.n + 1, op |-> "metrics", kind |-> "", change |-> "",
                payload |-> None]
    /\ UNCHANGED app

NextRing == RingLog \/ RingMetrics

SpecRing == Init /\ [][NextRing]_vars

Min(a, b) == IF a < b THEN a ELSE b

\* a buffer that holds the `len` most recent of the items numbered first, first+1, ..
\* up to `newest`, in arrival order
HoldsMostRecent(items, newest, len) ==
    /\ Len(items) = len
    /\ \A i \in DOMAIN items : items[i] = newest - len + i

\* C5: cpu_history and memory_history never exceed 60 samples, the global log never
\* exceeds 1000 entries, a session's log never exceeds 500; each buffer holds exactly
\* the most recent items in arrival order, so what was evicted was the oldest.
C5_RingBuffersKeepMostRecent ==
    /\ Len(state.metrics.cpu_history) <= 60
    /\ Len(state.metrics.memory_history) <= 60
    /\ Len(state.logs) <= 1000
    /\ \A sid \in DOMAIN state.session_logs : Len(state.session_logs[sid]) <= 500
    /\ HoldsMostRecent(state.metrics.cpu_history, state.metrics.current_cpu,
                       Min(state.metrics.current_cpu, 60))
    /\ HoldsMostRecent(state.metrics.memory_history, state.metrics.current_memory,
                       Min(state.metrics.current_memory, 60))
    /\ HoldsMostRecent([i \in DOMAIN state.logs |-> state.logs[i].timestamp],
                       state.clock - 1, Min(state.clock, 1000))
    /\ \A sid \in DOMAIN state.session_logs :
          HoldsMostRecent([i \in DOMAIN state.session_logs[sid] |->
                              state.session_logs[sid][i].timestamp],
                          state.clock - 1, Min(state.clock, 500))

\* every buffer is full and has already evicted its oldest item
C5_AllBuffersHaveEvicted ==
    /\ Len(state.metrics.cpu_history) = 60 /\ state.metrics.cpu_history[1] = 11
    /\ Len(state.logs) = 1000 /\ state.logs[1].timestamp = 100
    /\ Len(state.session_logs["x1"]) = 500 /\ state.session_logs["x1"][1].timestamp = 600

(***************************************************************************)
(* The pipe tailer's line decoding.  A line is kept as what the code asks  *)
(* of its text: `form` (where the marker DEV_EVENT_MAGIC sits), and what   *)
(* serde makes of the JSON: `wrapper` a DevEventMessage [msg_type, event], *)
(* `log_event` a DevBusLogEvent, `dev_event` a DevEvent; `structured` is   *)
(* parse_structured_log's result [level, source].                          *)
(***************************************************************************)
Line(form, wrapper, log_event, dev_event, structured) ==
    [form |-> form, wrapper |-> wrapper, log_event |-> log_event,
     dev_event |-> dev_event, structured |-> structured]

\* line.strip_prefix(DEV_EVENT_MAGIC).is_some()
HasMagicPrefix(line) == line.form = "prefixed"
\* line.starts_with('{') && line.contains(DEV_EVENT_MAGIC)
IsMagicJson(line) == line.form = "wrapped"
\* line.contains(DEV_EVENT_MAGIC): as a prefix, inside a JSON object, or anywhere else
ContainsMagic(line) == line.form \in {"prefixed", "wrapped", "embedded"}
\* line_content.trim().is_empty()
IsBlank(line) == line.form = "blank"

\* parse_unified_event_line trying the bare DevEvent schema before the category schema
parse_unified_event_line_BareFirst(line) ==
    IF HasMagicPrefix(line)
    THEN IF IsSome(line.wrapper) THEN Some(Legacy(Get(line.wrapper).event))
         ELSE IF IsSome(line.dev_event) THEN Some(Legacy(Get(line.dev_event)))
         ELSE IF IsSome(line.log_event) /\ Get(line.log_event).category \in {"trace", "log"}
              THEN Some(LogTransport(Get(line.log_event)))
         ELSE None
    ELSE IF IsMagicJson(line) /\ IsSome(line.wrapper)
              /\ Get(line.wrapper).msg_type = "__FRONTMCP_DEV_EVENT__"
         THEN Some(Legacy(Get(line.wrapper).event))
         ELSE None

parse_unified_event_line(line) ==
    IF HasMagicPrefix(line)
    THEN IF IsSome(line.wrapper) THEN Some(Legacy(Get(line.wrapper).event))
         ELSE IF IsSome(line.log_event) /\ Get(line.log_event).category \in {"trace", "log"}
              THEN Some(LogTransport(Get(line.log_event)))
         ELSE IF IsSome(line.dev_event) THEN Some(Legacy(Get(line.dev_event)))
         ELSE None
    ELSE IF IsMagicJson(line) /\ IsSome(line.wrapper)
              /\ Get(line.wrapper).msg_type = "__FRONTMCP_DEV_EVENT__"
         THEN Some(Legacy(Get(line.wrapper).event))
         ELSE None

\* the tailer's test that counts only marker lines as decode failures, read as a prefix test
is_potential_event_PrefixOnly(line) == HasMagicPrefix(line)

\* let is_potential_event = line_content.contains("__FRONTMCP_DEV_EVENT__")
is_potential_event(line) == ContainsMagic(line)

\* DashboardState::add_raw_log: a structured line is a new entry, any other non-blank
\* line is appended to the last entry's message (or starts the log)
add_raw_log(S, line) ==
    IF IsSome(line.structured)
    THEN add_log(S, Get(line.structured).level, Get(line.structured).source)
    ELSE IF ~IsBlank(line)
         THEN IF S.logs # <<>>
              THEN [S EXCEPT !.logs[Len(S.logs)].message_lines = @ + 1]
              ELSE add_log(S, "Info", "output")
         ELSE S

\* a handle_command_response that reports every response at info level
handle_command_response_AlwaysInfo(S, response) ==
    add_log(S, "Info", "socket")

handle_command_response(S, response) ==
    add_log(S, IF response.success THEN "Info" ELSE "Error", "socket")

SessionConnectX1 == TraceEvent("session:connect", "x1", "unknown", NoData)
SessionConnectX2 == LegacySessionEvent("Connect", "x2")
ToolAddedA ==
    LegacyRegistryEvent("tool", "added",
        [names |-> Some(<<"a">>), entries |-> None, owner |-> AppOwner("A1")])

\* the lines a server writes to the pipe file
Lines ==
    { Line("blank", None, None, None, None),
      Line("plain", None, None, None, Some([level |-> "Warn", source |-> "srv"])),
      Line("plain", None, None, None, None),
      Line("prefixed", None, Some(SessionConnectX1), None, None),
      Line("prefixed", None, None, Some(ToolAddedA), None),
      Line("prefixed", None, Some(TraceEvent("custom:event", "x1", "unknown", NoData)),
           None, None),
      Line("prefixed", Some([msg_type |-> "other", event |-> ToolAddedA]),
           Some(SessionConnectX1), Some(SessionConnectX2), None),
      Line("prefixed", None, Some(SessionConnectX1), Some(SessionConnectX2), None),
      Line("prefixed", None, Some([SessionConnectX1 EXCEPT !.category = "metric"]),
           Some(SessionConnectX2), None),
      Line("prefixed", None, Some([SessionConnectX1 EXCEPT !.category = "metric"]),
           None, None),
      Line("prefixed", None, None, None, None),
      Line("wrapped", Some([msg_type |-> "__FRONTMCP_DEV_EVENT__", event |-> ToolAddedA]),
           None, None, None),
      Line("wrapped", Some([msg_type |-> "other", event |-> ToolAddedA]), None, None, None),
      Line("wrapped", None, None, None, None),
      Line("embedded", None, None, None, None) }

(***************************************************************************)
(* The socket client: connecting, and the reader task's message decoding.  *)
(* A message is kept as what serde makes of it: msg_type (MessageType),    *)
(* state (StateMessage), event (EventMessage), raw (RawEventMessage's      *)
(* event object), response (ResponseMessage).                              *)
(***************************************************************************)
Message(msg_type, st, event, raw, response) ==
    [msg_type |-> msg_type, state |-> st, event |-> event, raw |-> raw,
     response |-> response]

\* str::to_lowercase on the level names a server sends
ToLowercase(str) ==
    CASE str = "WARN" -> "warn" [] str = "ERROR" -> "error" [] str = "DEBUG" -> "debug"
      [] OTHER -> str

raw_event_to_log_event(raw) ==
    IF ~IsSome(raw.type) \/ ~IsSome(raw.scopeId) THEN None
    ELSE LET category == IF IsSome(raw.category) THEN Get(raw.category) ELSE "request"
         IN  Some([category |-> category, event_type |-> Get(raw.type), timestamp |-> 0,
                   session_id |-> IF IsSome(raw.sessionId) THEN Get(raw.sessionId)
                                  ELSE "unknown",
                   request_id |-> IF IsSome(raw.requestId) THEN Get(raw.requestId)
                                  ELSE "unknown",
                   data |-> raw.data,
                   level_name |-> IF category = "log" /\ IsSome(raw.data.level)
                                  THEN Some(ToLowercase(Get(raw.data.level))) ELSE None,
                   prefix |-> IF category = "log"
                              THEN (IF IsSome(raw.data.prefix) THEN Get(raw.data.prefix)
                                    ELSE "sdk")
                              ELSE "manager"])

RawEvent(type, scopeId, sessionId, category, data) ==
    [type |-> type, scopeId |-> scopeId, sessionId |-> sessionId, requestId |-> None,
     category |-> category, data |-> data]

\* the messages a ManagerService writes to the socket
Messages ==
    { Message(Some("welcome"), None, None, None, None),
      Message(Some("state"), Some(CHOOSE x \in Snapshots : Len(x.scopes) = 1),
              None, None, None),
      Message(Some("state"), None, None, None, None),
      Message(Some("event"), None, Some(ToolAddedA), None, None),
      Message(Some("event"), None, None,
              Some(RawEvent(Some("session:connect"), Some("s1"), Some("x2"),
                            Some("trace"), NoData)), None),
      Message(Some("event"), None, None,
              Some(RawEvent(Some("tool:execute"), None, None, None, NoData)), None),
      Message(Some("event"), None, None,
              Some(RawEvent(Some("tool:execute"), Some("s1"), None, None, NoData)), None),
      Message(Some("response"), None, None, None,
              Some([command_id |-> 0, success |-> FALSE])) }

\* what one turn of the reader loop sends: <<channel, item>> or nothing
SocketReaderSends(msg) ==
    CASE msg.msg_type = Some("state") ->
           IF IsSome(msg.state) THEN Some(<<"state_tx", Get(msg.state)>>)
           ELSE Some(<<"tx", [kind |-> "Error", e |-> "State parse error"]>>)
      [] msg.msg_type = Some("event") ->
           IF IsSome(msg.event) THEN Some(<<"tx", Legacy(Get(msg.event))>>)
           ELSE IF IsSome(msg.raw) /\ IsSome(raw_event_to_log_event(Get(msg.raw)))
                THEN Some(<<"tx", LogTransport(Get(raw_event_to_log_event(Get(msg.raw))))>>)
                ELSE None
      [] msg.msg_type = Some("response") ->
           IF IsSome(msg.response) THEN Some(<<"response_tx", Get(msg.response)>>) ELSE None
      [] OTHER -> None

ConnectionError(message, socket_path) == [message |-> message, socket_path |-> socket_path]

\* `if attempts > 50` with a test that never gives up before 100 sleeps
GiveUp_AtHundred(attempts) == attempts > 100

\* `if attempts > 50`, after the sleep and `attempts += 1`
GiveUp(attempts) == attempts > SOCKET_MAX_ATTEMPTS

\* App::run, the Err arm of `match spawn_socket_client(..)`
ConnectFailed(S, err) ==
    [add_log(S, "Error", "tui") EXCEPT !.connection_error = Some(err.message)]

(***************************************************************************)
(* App::run: transport selection, the two reader tasks, the consumer loop. *)
(* The event and log channels (capacity 100) never fill under MaxLines and *)
(* MaxMessages, so only the snapshot channel's capacity is modelled; the   *)
(* metrics collector has not sampled in this run.                          *)
(***************************************************************************)
Op(op, change, payload) ==
    [n |-> 0, op |-> op, kind |-> "", change |-> change, payload |-> payload]

\* app.rs:94-103: connection_started_at, then the first `if let Ok(..) = env::var(..)`
RunStart ==
    /\ app.pc = "new"
    /\ \E es \in BOOLEAN, ep \in BOOLEAN :
          /\ app' = [app EXCEPT !.env_socket = es, !.env_pipe = ep,
                                !.pc = IF es THEN "socket_wait" ELSE "pipe_select"]
          /\ state' = [state EXCEPT !.connection_started_at = Some(state.clock),
                                    !.clock = state.clock + 1,
                                    !.socket_path = IF es THEN Some("sock") ELSE @]
    /\ last' = Op("run", "", None)

\* spawn_socket_client up to its return, one existence check per step: the path exists
\* (then connect() succeeds or fails) or it does not (sleep, count, maybe give up).
\* `attempts` is a local of the call: it is gone on return, and a give-up reports its
\* last value in last.n.
SocketCheck ==
    /\ app.pc = "socket_wait"
    /\ \E exists \in BOOLEAN, connects \in BOOLEAN :
          LET attempts == app.attempts + 1
              err == IF exists THEN ConnectionError("Failed to connect to server socket", "sock")
                     ELSE ConnectionError("Socket not found after 5s", "sock")
          IN  IF exists /\ connects
              THEN /\ app' = [app EXCEPT !.socket_reader = TRUE, !.pipe_connected = TRUE,
                                         !.attempts = 0, !.pc = "pipe_select"]
                   /\ state' = [state EXCEPT !.socket_connected = TRUE]
                   /\ last' = Op("socket", "connected", None)
              ELSE IF exists \/ GiveUp(attempts)
              THEN /\ app' = [app EXCEPT !.attempts = 0, !.pc = "pipe_select"]
                   /\ state' = ConnectFailed(state, err)
                   /\ last' = [Op("socket", IF exists THEN "refused" ELSE "not_found",
                                  Some(err)) EXCEPT !.n = IF exists THEN 0 ELSE attempts]
              ELSE /\ app' = [app EXCEPT !.attempts = attempts]
                   /\ state' = state
                   /\ last' = Op("socket", "sleep", None)

\* app.rs:130-192: the second, independent `if let Ok(..) = env::var(..)`
PipeSelect ==
    /\ app.pc = "pipe_select"
    /\ app' = [app EXCEPT !.pc = "loop",
                          !.pipe_reader = IF app.env_pipe THEN "waiting" ELSE @]
    /\ state' = [state EXCEPT !.pipe_path = IF app.env_pipe THEN Some("pipe") ELSE @]
    /\ last' = Op("pipe", "select", None)

\* the tailer leaves `while !exists { sleep }` and opens the file
PipeOpen ==
    /\ app.pipe_reader = "waiting"
    /\ \E ok \in BOOLEAN :
          app' = [app EXCEPT !.pipe_reader = IF ok THEN "tailing" ELSE "ended",
                             !.pipe_connected = IF ok THEN TRUE ELSE @]
    /\ last' = Op("pipe", "open", None)
    /\ UNCHANGED state

\* one `Ok(_)` turn of the tailer's read_line loop
PipeTailerTurn(a, line) ==
    IF IsBlank(line) THEN a
    ELSE LET a1 == [a EXCEPT !.lines_read = @ + 1]
             event == parse_unified_event_line(line)
         IN  IF IsSome(event) THEN [a1 EXCEPT !.tx = Append(@, Get(event))]
             ELSE IF is_potential_event(line) THEN [a1 EXCEPT !.parse_failures = @ + 1]
             ELSE [a1 EXCEPT !.log_tx = Append(@, line)]

PipeReadLine ==
    /\ app.pipe_reader = "tailing"
    /\ app.lines_fed < MaxLines
    /\ app.pipe_unread = None
    /\ ~app.rx_dropped
    /\ \E line \in Lines :
          /\ app' = [PipeTailerTurn(app, line) EXCEPT !.lines_fed = @ + 1]
          /\ last' = Op("pipe", "line", Some(line))
    /\ UNCHANGED state

\* one `Ok(_)` turn of the socket reader's loop; blocking_send on the snapshot channel
\* waits while it is full
SocketReadMessage ==
    /\ app.socket_reader
    /\ app.messages_fed < MaxMessages
    /\ app.unread = None
    /\ ~app.rx_dropped
    /\ \E msg \in Messages :
          LET sends == SocketReaderSends(msg)
              to == IF IsSome(sends) THEN Get(sends)[1] ELSE "none"
          IN  /\ to = "state_tx" => Len(app.state_tx) < STATE_CHANNEL_CAPACITY
              /\ app' = [app EXCEPT
                    !.messages_fed = @ + 1,
                    !.state_tx = IF to = "state_tx" THEN Append(@, Get(sends)[2]) ELSE @,
                    !.tx = IF to = "tx" THEN Append(@, Get(sends)[2]) ELSE @,
                    !.response_tx = IF to = "response_tx" THEN Append(@, Get(sends)[2])
                                    ELSE @]
              /\ last' = Op("socket", "message", Some(msg))
    /\ UNCHANGED state

\* what serde makes of the bytes of a record after a split point: no JSON object, so
\* MessageType does not parse
RestOfRecord(msg) == Message(None, None, None, None, None)

\* a turn of the reader loop that ends in the read timeout: line.clear(), then read_line
\* returns Err(WouldBlock | TimedOut) after 100 ms.  BufRead::read_line has appended to
\* `line` the bytes that had arrived (none, or the head of the next record) and consumed
\* them from the stream; the arm is `continue`.
SocketReadTimeout ==
    /\ app.socket_reader
    /\ app.messages_fed < MaxMessages
    /\ app.unread = None
    /\ \E msg \in Messages, arrived \in BOOLEAN :
          /\ app' = [app EXCEPT !.line = IF arrived THEN <<[record |-> msg, part |-> "head"]>>
                                         ELSE <<>>,
                                !.unread = IF arrived THEN Some(msg) ELSE None]
          /\ last' = Op("socket", "timeout", IF arrived THEN Some(msg) ELSE None)
    /\ UNCHANGED state

\* the turn after a timeout inside a record: line.clear(), then read_line returns Ok with
\* the rest of the record up to its newline, and the `Ok(_)` arm dispatches on `line`
SocketReadRest ==
    /\ app.socket_reader
    /\ IsSome(app.unread)
    /\ LET msg == Get(app.unread)
           line == <<[record |-> msg, part |-> "tail"]>>
           sends == SocketReaderSends(RestOfRecord(msg))
           to == IF IsSome(sends) THEN Get(sends)[1] ELSE "none"
       IN  /\ app' = [app EXCEPT
                 !.line = line, !.unread = None, !.messages_fed = @ + 1,
                 !.state_tx = IF to = "state_tx" THEN Append(@, Get(sends)[2]) ELSE @,
                 !.tx = IF to = "tx" THEN Append(@, Get(sends)[2]) ELSE @,
                 !.response_tx = IF to = "response_tx" THEN Append(@, Get(sends)[2]) ELSE @]
           /\ last' = Op("socket", "rest", Some(msg))
    /\ UNCHANGED state

\* `if let Ok(event) = rx.try_recv()`: a drain that takes one event and discards the rest
FoldEvents_FirstOnly(S, events) ==
    IF events = <<>> THEN S ELSE handle_unified_event(S, Head(events))

RECURSIVE FoldEvents(_, _)
\* `while let Ok(event) = rx.try_recv() { handle_unified_event(event) }`; each event is
\* folded into the Store (S1 is computed) before the next one is received
FoldEvents(S, events) ==
    IF events = <<>> THEN S
    ELSE LET S1 == handle_unified_event(S, Head(events))
         IN  IF S1.events_received >= 0 THEN FoldEvents(S1, Tail(events)) ELSE S1

RECURSIVE FoldLogLines(_, _)
FoldLogLines(S, lines) ==
    IF lines = <<>> THEN S ELSE FoldLogLines(add_raw_log(S, Head(lines)), Tail(lines))

RECURSIVE FoldResponses(_, _)
FoldResponses(S, responses) ==
    IF responses = <<>> THEN S
    ELSE FoldResponses(handle_command_response(S, Head(responses)), Tail(responses))

RECURSIVE FoldMetrics(_, _)
\* `while let Ok((cpu, memory)) = metrics_rx.try_recv()`
FoldMetrics(S, samples) ==
    IF samples = <<>> THEN S
    ELSE FoldMetrics([S EXCEPT !.metrics = update_system_metrics(@, Head(samples).cpu,
                                                                 Head(samples).memory)],
                     Tail(samples))

\* one iteration of the consumer loop (app.rs:194-228)
Frame(S, a) ==
    LET S0 == [S EXCEPT !.pipe_connected = a.pipe_connected,
                        !.lines_read = a.lines_read,
                        !.parse_failures = a.parse_failures]
        S1 == IF a.state_tx # <<>> THEN handle_state_snapshot(S0, Head(a.state_tx)) ELSE S0
        S2 == FoldMetrics(FoldLogLines(FoldEvents(S1, a.tx), a.log_tx), a.metrics_tx)
    IN  FoldResponses(S2, a.response_tx)

ConsumerFrame ==
    /\ app.pc = "loop"
    /\ state' = Frame(state, app)
    /\ app' = [app EXCEPT !.state_tx = IF @ # <<>> THEN Tail(@) ELSE @,
                          !.tx = <<>>, !.log_tx = <<>>, !.response_tx = <<>>,
                          !.metrics_tx = <<>>]
    /\ last' = Op("frame", "", None)

NextTransport ==
    \/ RunStart \/ SocketCheck \/ PipeSelect \/ PipeOpen
    \/ PipeReadLine \/ SocketReadMessage \/ SocketReadTimeout \/ SocketReadRest
    \/ ConsumerFrame

SpecTransport == Init /\ [][NextTransport]_vars

\* App::run is one thread: spawn_socket_client's loop keeps taking its turns
SpecTransportFair == SpecTransport /\ WF_vars(SocketCheck) /\ WF_vars(PipeSelect)

C9_AtMostOneReader ==
    /\ ~(app.socket_reader /\ app.pipe_reader # "none")
    /\ (app.pc = "loop" /\ ~app.env_socket /\ ~app.env_pipe)
          => (~app.socket_reader /\ app.pipe_reader = "none" /\ state.events_received = 0)

\* both readers run and each has put one event on the event channel
C9_BothReadersFeed ==
    /\ app.socket_reader /\ app.pipe_reader = "tailing"
    /\ app.lines_fed = 1 /\ app.messages_fed = 1
    /\ Len(app.tx) = 2

\* C10: while the socket path does not exist spawn_socket_client sleeps at most 50 times
\* without giving up; on the 51st it returns a ConnectionError with a message and the
\* socket path and starts no reader; the consumer records connection_error, leaves
\* socket_connected false, and goes on to its loop.
C10_SocketGivesUp ==
    /\ [](app.attempts <= 50)
    /\ [](IsSome(state.connection_error) => (~app.socket_reader /\ ~state.socket_connected))
    /\ [][(last'.op = "socket" /\ last'.change = "not_found")
          => /\ last'.n = 51
             /\ Get(last'.payload).message # "" /\ Get(last'.payload).socket_path = "sock"
             /\ state'.connection_error = Some(Get(last'.payload).message)
             /\ ~app'.socket_reader /\ ~state'.socket_connected
             /\ app'.pc = "pipe_select"]_vars
    /\ (app.pc = "socket_wait") ~> (app.pc = "loop")

\* the consumer loop runs after a give-up: the error is recorded, no socket reader exists
C10_RunningAfterGiveUp ==
    /\ app.pc = "loop" /\ last.op = "frame"
    /\ state.connection_error = Some("Socket not found after 5s")
    /\ ~state.socket_connected /\ ~app.socket_reader
    /\ \E i \in DOMAIN state.logs : state.logs[i].source = "tui"

(***************************************************************************)
(* SocketClientHandle::send_command, called by threads holding clones of   *)
(* the handle.  One call is: lock the writer, fetch_add the counter, write *)
(* the line (write_all may take more than one write: two chunks), flush,   *)
(* return the id and drop the guard.  A failed write ends the call with    *)
(* None; the stream stays broken, as a closed peer leaves it.  Command ids *)
(* "cmd-N" are kept as N.                                                  *)
(***************************************************************************)
\* writer.lock() returns a guard to a caller that would take every lock at once
MutexFree_NoMutex(h) == TRUE

\* self.writer.lock(): the guard is granted when no caller holds it
MutexFree(h) == h.writer_lock = None

SetCaller(h, c, pc, id) == [h EXCEPT !.caller[c] = [pc |-> pc, id |-> id]]

\* let mut writer = self.writer.lock().ok()?
SendLock(c) ==
    /\ app.socket_reader
    /\ app.handle.caller[c].pc = "idle"
    /\ app.handle.command_counter < MaxCommands
    /\ MutexFree(app.handle)
    /\ app' = [app EXCEPT !.handle = [SetCaller(@, c, "locked", 0) EXCEPT
                                         !.writer_lock = Some(c)]]
    /\ last' = Op("send", "lock", Some(c))
    /\ UNCHANGED state

\* let id = self.command_counter.fetch_add(1, SeqCst)
SendMint(c) ==
    /\ app.handle.caller[c].pc = "locked"
    /\ app' = [app EXCEPT !.handle =
                 [SetCaller(@, c, "minted", app.handle.command_counter) EXCEPT
                     !.command_counter = @ + 1]]
    /\ last' = Op("send", "mint", Some(c))
    /\ UNCHANGED state

\* writeln!(stream, "{}", json): one write of the two write_all may need
SendWrite(c) ==
    /\ app.handle.caller[c].pc \in {"minted", "writing"}
    /\ LET me == app.handle.caller[c]
           part == IF me.pc = "minted" THEN "head" ELSE "tail"
       IN  \E ok \in BOOLEAN :
              IF ok /\ ~app.handle.broken
              THEN app' = [app EXCEPT !.handle =
                             [SetCaller(@, c, IF part = "head" THEN "writing" ELSE "written",
                                        me.id)
                                EXCEPT !.wire = Append(@, [id |-> me.id, part |-> part])]]
              ELSE app' = [app EXCEPT !.handle =
                             [SetCaller(@, c, "idle", 0) EXCEPT
                                 !.broken = TRUE,
                                 !.writer_lock = IF @ = Some(c) THEN None ELSE @]]
    /\ last' = Op("send", "write", Some(c))
    /\ UNCHANGED state

\* stream.flush().ok()?; Some(command_id): the guard is dropped on return
SendReturn(c) ==
    /\ app.handle.caller[c].pc = "written"
    /\ app' = [app EXCEPT !.handle =
                 [SetCaller(@, c, "idle", 0) EXCEPT
                     !.returned = Append(@, app.handle.caller[c].id),
                     !.writer_lock = IF @ = Some(c) THEN None ELSE @]]
    /\ last' = Op("send", "return", Some(c))
    /\ UNCHANGED state

\* the command ids a server's response message may carry: issued ones and a foreign one
ResponseIds == 0 .. MaxCommands \cup {99}

\* the reader task's turn on a "response" message
SocketReadResponse ==
    /\ app.socket_reader
    /\ app.messages_fed < MaxMessages
    /\ \E id \in ResponseIds, ok \in BOOLEAN :
          LET msg == Message(Some("response"), None, None, None,
                             Some([command_id |-> id, success |-> ok]))
              sends == SocketReaderSends(msg)
          IN  /\ app' = [app EXCEPT
                    !.messages_fed = @ + 1,
                    !.response_tx = IF IsSome(sends) THEN Append(@, Get(sends)[2]) ELSE @]
              /\ last' = Op("socket", "message", Some(msg))
    /\ UNCHANGED state

NextCommand ==
    \/ RunStart \/ SocketCheck \/ PipeSelect
    \/ \E c \in Callers : SendLock(c) \/ SendMint(c) \/ SendWrite(c) \/ SendReturn(c)
    \/ SocketReadResponse \/ ConsumerFrame

SpecCommand == Init /\ [][NextCommand]_vars

\* the ids send_command has handed to the stream so far
IssuedIds(h) == {h.wire[i].id : i \in DOMAIN h.wire}

\* C11: under every interleaving of send_command calls through clones of one handle a
\* command is written as one whole line (a head chunk is followed by its own tail, and
\* only the last line may still lack it), the ids returned are pairwise distinct, and
\* the ids on the wire are strictly increasing.
C11_CommandsSerialized ==
    LET h == app.handle
        w == h.wire
    IN  /\ \A i \in DOMAIN w :
              /\ w[i].part = "head" =>
                    (i = Len(w) \/ (w[i + 1].part = "tail" /\ w[i + 1].id = w[i].id))
              /\ w[i].part = "tail" =>
                    (i > 1 /\ w[i - 1].part = "head" /\ w[i - 1].id = w[i].id)
        /\ \A i, j \in DOMAIN h.returned : i # j => h.returned[i] # h.returned[j]
        /\ \A i, j \in DOMAIN w :
              (i < j /\ w[i].part = "head" /\ w[j].part = "head") => w[i].id < w[j].id

\* two commands have been written and returned and a third is written whole by a caller
\* that still holds the lock
C11_ThreeCallersWroteInTurn ==
    /\ Len(app.handle.returned) = 2
    /\ Len(app.handle.wire) = 6
    /\ \E c \in Callers : app.handle.caller[c].pc = "written"
    /\ app.handle.command_counter = 3

\* C12: the reader routes a response to the response channel only when its id is the id
\* of a command send_command issued before; a response with another id does not reach
\* the Store.
C12_RoutedResponsesWereIssued ==
    \A i \in DOMAIN app.response_tx :
        app.response_tx[i].command_id \in IssuedIds(app.handle)

\* a response whose id no command ever carried has been folded into the Store's log
C12_ForeignResponseFolded ==
    /\ last.op = "frame"
    /\ app.handle.command_counter = 0
    /\ \E i \in DOMAIN state.logs : state.logs[i].source = "socket"

\* an event the Store has no arm for: a trace event of a type handle_trace_event does not
\* name, or a DevBusLogEvent whose category is neither "trace" nor "log"
IsUnrecognised(event) ==
    /\ event.kind = "LogTransport"
    /\ \/ event.e.category \notin {"trace", "log"}
       \/ event.e.category = "trace" /\ event.e.event_type = "custom:event"

\* C13: a frame that folds one event of a kind the Store does not recognise appends
\* exactly one log entry, of level Debug, and leaves the parse-failure counter, the
\* sessions, the requests and the registry collections unchanged.
C13_UnrecognisedLogsOnce ==
    [][(/\ last'.op = "frame"
        /\ Len(app.tx) = 1 /\ IsUnrecognised(app.tx[1])
        /\ app.state_tx = <<>> /\ app.log_tx = <<>> /\ app.response_tx = <<>>)
       => /\ Len(state'.logs) = Len(state.logs) + 1
          /\ state'.logs[Len(state'.logs)].level = "Debug"
          /\ app'.parse_failures = app.parse_failures
          /\ state'.parse_failures = app.parse_failures
          /\ state'.sessions = state.sessions /\ state'.requests = state.requests
          /\ \A k \in RegistryKinds : Collection(state', k) = Collection(state, k)]_vars

\* the only event ever forwarded was a socket event of the default category "request":
\* it is counted as received and the log is still empty
C13_RequestCategoryFoldedSilently ==
    /\ last.op = "frame"
    /\ app.messages_fed = 1 /\ app.lines_fed = 0
    /\ state.events_received = 1
    /\ state.logs = <<>> /\ state.tools = <<>> /\ state.recent_errors = <<>>

\* C14: the tailer gives a non-blank line exactly one outcome: a marker-prefixed line
\* that decodes is forwarded as one event; a marker-prefixed line that does not decode
\* adds 1 to the parse-failure counter and is dropped; a line that neither starts with
\* the marker nor is JSON goes verbatim to the log channel and is not counted.
C14_ThreeOutcomes ==
    [][(last'.op = "pipe" /\ last'.change = "line" /\ ~IsBlank(Get(last'.payload)))
       => LET line == Get(last'.payload)
              event == parse_unified_event_line(line)
              forwarded == Len(app'.tx) = Len(app.tx) + 1 /\ app'.tx[Len(app'.tx)] = Get(event)
              counted == app'.parse_failures = app.parse_failures + 1
              logged == app'.log_tx = Append(app.log_tx, line)
          IN  /\ (HasMagicPrefix(line) /\ IsSome(event)) =>
                    (forwarded /\ app'.parse_failures = app.parse_failures
                               /\ app'.log_tx = app.log_tx)
              /\ (HasMagicPrefix(line) /\ ~IsSome(event)) =>
                    (counted /\ app'.tx = app.tx /\ app'.log_tx = app.log_tx)
              /\ (~HasMagicPrefix(line) /\ ~IsMagicJson(line)) =>
                    (logged /\ app'.tx = app.tx
                            /\ app'.parse_failures = app.parse_failures)]_vars

\* a line with the marker after its first character has been counted as a parse failure
\* and has not reached the log channel
C14_MarkerInsideLineCounted ==
    /\ last.op = "pipe" /\ last.change = "line"
    /\ Get(last.payload).form = "embedded"
    /\ app.parse_failures = 1 /\ app.lines_read = 1
    /\ app.log_tx = <<>> /\ app.tx = <<>>

\* C15: for a marker-prefixed line parse_unified_event_line returns the event of the
\* first schema that matches, in the order envelope, category schema (category "trace"
\* or "log" only), bare legacy event; when none matches it returns nothing.
C15_FirstSchemaWins ==
    [][(last'.op = "pipe" /\ last'.change = "line" /\ HasMagicPrefix(Get(last'.payload)))
       => LET line == Get(last'.payload)
              categorised == /\ IsSome(line.log_event)
                             /\ Get(line.log_event).category \in {"trace", "log"}
              sent == SubSeq(app'.tx, Len(app.tx) + 1, Len(app'.tx))
          IN  /\ IsSome(line.wrapper) => sent = <<Legacy(Get(line.wrapper).event)>>
              /\ (~IsSome(line.wrapper) /\ categorised) =>
                    sent = <<LogTransport(Get(line.log_event))>>
              /\ (~IsSome(line.wrapper) /\ ~categorised /\ IsSome(line.dev_event)) =>
                    sent = <<Legacy(Get(line.dev_event))>>
              /\ (~IsSome(line.wrapper) /\ ~categorised /\ ~IsSome(line.dev_event)) =>
                    sent = <<>>]_vars

\* a line that matches both the category schema and the bare legacy schema has been
\* forwarded as the category-schema event
C15_CategoryBeforeBare ==
    /\ last.op = "pipe" /\ last.change = "line"
    /\ HasMagicPrefix(Get(last.payload))
    /\ ~IsSome(Get(last.payload).wrapper)
    /\ IsSome(Get(last.payload).log_event) /\ IsSome(Get(last.payload).dev_event)
    /\ app.tx = <<LogTransport(SessionConnectX1)>>

(***************************************************************************)
(* The bounded event channel under load: the tailer reads a long stream of *)
(* marker-prefixed trace events, the k-th carrying request id k, and       *)
(* blocking_send waits while the channel holds EVENT_CHANNEL_CAPACITY      *)
(* events.                                                                 *)
(***************************************************************************)
StreamLine(k) ==
    Line("prefixed", None, Some(TraceEvent("tool:execute", "x1", ToString(k), NoData)),
         None, None)

\* the tailer's turn on the next line of the stream; tx.blocking_send(event) returns
\* only when the channel has room
PipeForward ==
    /\ app.pipe_reader = "tailing"
    /\ app.lines_fed < MaxStream
    /\ Len(app.tx) < EVENT_CHANNEL_CAPACITY
    /\ app' = [PipeTailerTurn(app, StreamLine(app.lines_fed + 1)) EXCEPT !.lines_fed = @ + 1]
    /\ last' = Op("pipe", "line", Some(StreamLine(app.lines_fed + 1)))
    /\ UNCHANGED state

NextChannel ==
    \/ RunStart \/ SocketCheck \/ PipeSelect \/ PipeOpen \/ PipeForward \/ ConsumerFrame

SpecChannel == Init /\ [][NextChannel]_vars

\* the request ids of the stream's events the Store has folded, in folding order
FoldedStream ==
    LET folded == SelectSeq(state.logs, LAMBDA e : e.source = "tool")
    IN  [i \in DOMAIN folded |-> Get(folded[i].request_id)]

\* C16: the events the reader has forwarded are, in forwarding order, those the consumer
\* has folded followed by those still in the channel, each exactly once; the channel
\* never holds more than its capacity, the reader waiting while it is full.
C16_ChannelIsFifo ==
    /\ Len(app.tx) <= 100
    /\ FoldedStream \o [i \in DOMAIN app.tx |-> app.tx[i].e.request_id]
          = [k \in 1 .. app.lines_fed |-> ToString(k)]

\* the channel is full for the second time: two events were folded, then the reader
\* filled the channel again
C16_FullAfterDrain ==
    /\ Len(app.tx) = 100
    /\ app.lines_fed = 102
    /\ Len(FoldedStream) = 2

\* C17: in every reachable state the entries of one registry collection have pairwise
\* distinct names, whatever registry events and snapshots have been folded.
C17_NamesUniqueWithinKind ==
    \A k \in RegistryKinds :
        \A i, j \in DOMAIN Collection(state, k) :
            i # j => Collection(state, k)[i].name # Collection(state, k)[j].name

\* a snapshot whose two scopes each hold a tool "b" has left two tools named "b"
C17_SnapshotScopesShareName ==
    /\ last.op = "snapshot"
    /\ Len(state.scopes) = 2
    /\ \E i, j \in DOMAIN state.tools :
          /\ i < j /\ state.tools[i].name = "b" /\ state.tools[j].name = "b"
          /\ state.tools[i].owner_id # state.tools[j].owner_id

\* C18: a request complete or error event whose request id matches no stored ApiRequest,
\* or that carries no request id, leaves the requests collection as it was.
C18_UnmatchedDoneKeepsRequests ==
    [][(/\ last'.kind = "request" /\ last'.change \in {"complete", "error"}
        /\ \/ Get(last'.payload).id = "unknown"
           \/ \A i \in DOMAIN state.requests : state.requests[i].id # Get(last'.payload).id)
       => state'.requests = state.requests]_vars

\* an error event without a request id has been counted by the metrics while the request
\* stored under the empty id by an id-less start, and one under "r1", are untouched
C18_IdlessErrorBesideStoredRequests ==
    /\ last.kind = "request" /\ last.change = "error"
    /\ Get(last.payload).id = "unknown"
    /\ state.metrics.failed_requests = 1
    /\ Len(state.requests) = 2
    /\ \E i, j \in DOMAIN state.requests :
          /\ state.requests[i].id = "" /\ state.requests[j].id = "r1"
    /\ \A i \in DOMAIN state.requests :
          ~state.requests[i].is_error /\ state.requests[i].duration_ms = None

\* C19: a registry 'updated' event, of any kind and in either schema, changes no stored
\* registry entry and no collection's membership; apart from the event counter its only
\* effect on the Store is at most one log entry.
C19_UpdatedOnlyLogs ==
    [][(IsRegistryOp(last') /\ last'.change = "updated")
       => /\ [state' EXCEPT !.logs = state.logs, !.clock = state.clock,
                            !.events_received = state.events_received] = state
          /\ \/ state'.logs = state.logs
             \/ /\ Len(state'.logs) = Len(state.logs) + 1
                /\ SubSeq(state'.logs, 1, Len(state.logs)) = state.logs
          /\ state'.events_received = state.events_received + 1]_vars

\* an 'updated' event naming tool "a" was folded while tools "a" and "b" are stored with
\* their owner
C19_UpdatedOverStoredTools ==
    /\ IsRegistryOp(last) /\ last.change = "updated" /\ last.kind = "tool"
    /\ "a" \in PayloadNames(Get(last.payload))
    /\ Names(state.tools) = {"a", "b"}
    /\ \A i \in DOMAIN state.tools : state.tools[i].owner_id = Some("A1")
    /\ Len(state.logs) = 2

\* C20: a read timeout in the socket reader loses nothing: when the rest of a record
\* arrives after a timeout that fell inside it, the reader dispatches the record whole,
\* exactly as it dispatches a record read in one piece.
C20_SplitRecordDispatchedWhole ==
    [][(last'.op = "socket" /\ last'.change = "rest")
       => LET msg == Get(last'.payload)
              sends == SocketReaderSends(msg)
              to == IF IsSome(sends) THEN Get(sends)[1] ELSE "none"
              item == Get(sends)[2]
          IN  /\ app'.tx = IF to = "tx" THEN Append(app.tx, item) ELSE app.tx
              /\ app'.state_tx = IF to = "state_tx" THEN Append(app.state_tx, item)
                                 ELSE app.state_tx
              /\ app'.response_tx = IF to = "response_tx" THEN Append(app.response_tx, item)
                                    ELSE app.response_tx]_vars

\* the rest of an event record has been read after a timeout, the buffer holds only the
\* record's tail, and nothing was sent on any channel or folded
C20_SplitEventLost ==
    /\ last.op = "socket" /\ last.change = "rest"
    /\ Get(last.payload).msg_type = Some("event")
    /\ IsSome(SocketReaderSends(Get(last.payload)))
    /\ app.line = <<[record |-> Get(last.payload), part |-> "tail"]>>
    /\ app.tx = <<>> /\ app.state_tx = <<>> /\ app.response_tx = <<>>
    /\ state.events_received = 0

(***************************************************************************)
(* The pipe tailer at end-of-file.  BufRead::read_line on the file returns *)
(* Ok(0) when nothing is left to read and Ok(n) with the bytes up to       *)
(* end-of-file when the last line has no newline yet.                      *)
(***************************************************************************)
\* where the server's first write of a line can end
SplitPoints == {"in_marker", "in_body"}

\* the text read up to end-of-file: the marker survives when the split falls after it
HeadOf(line, at) ==
    IF at = "in_body" /\ ContainsMagic(line)
    THEN Line(line.form, None, None, None, None)
    ELSE Line("plain", None, None, None, line.structured)

\* the text from end-of-file to the newline
TailOf(line, at) ==
    IF at = "in_marker" /\ ContainsMagic(line)
    THEN Line("embedded", None, None, None, None)
    ELSE Line("plain", None, None, None, None)

\* `Ok(0)`: no data, sleep 10 ms and read again
PipeReadNothing ==
    /\ app.pipe_reader = "tailing"
    /\ app.lines_fed < MaxLines
    /\ last' = Op("pipe", "nothing", None)
    /\ UNCHANGED <<state, app>>

\* an `Ok(_)` turn that reads the first write of a line up to end-of-file
PipeReadHead ==
    /\ app.pipe_reader = "tailing"
    /\ app.lines_fed < MaxLines
    /\ app.pipe_unread = None
    /\ \E line \in Lines \ {l \in Lines : IsBlank(l)}, at \in SplitPoints :
          /\ app' = [PipeTailerTurn(app, HeadOf(line, at)) EXCEPT
                        !.pipe_unread = Some([line |-> line, at |-> at])]
          /\ last' = Op("pipe", "head", Some(line))
    /\ UNCHANGED state

\* the `Ok(_)` turn that reads the second write of that line, up to its newline
PipeReadTail ==
    /\ app.pipe_reader = "tailing"
    /\ IsSome(app.pipe_unread)
    /\ LET u == Get(app.pipe_unread)
       IN  /\ app' = [PipeTailerTurn(app, TailOf(u.line, u.at)) EXCEPT
                         !.pipe_unread = None, !.lines_fed = @ + 1]
           /\ last' = Op("pipe", "tail", Some(u.line))
    /\ UNCHANGED state

NextTail ==
    \/ RunStart \/ SocketCheck \/ PipeSelect \/ PipeOpen
    \/ PipeReadLine \/ PipeReadNothing \/ PipeReadHead \/ PipeReadTail
    \/ ConsumerFrame

SpecTail == Init /\ [][NextTail]_vars

\* what the tailer has counted and forwarded
Classified(a) ==
    [lines_read |-> a.lines_read, parse_failures |-> a.parse_failures,
     tx |-> a.tx, log_tx |-> a.log_tx]

\* C21: a read of the pipe file that finds no data changes nothing, and a line is
\* classified only once it is complete: a turn that reads a line's first write up to
\* end-of-file classifies nothing, and the turn that reads its second write classifies
\* the whole line, once.
C21_SplitLineClassifiedOnce ==
    [][/\ (last'.op = "pipe" /\ last'.change = "nothing") => app' = app
       /\ (last'.op = "pipe" /\ last'.change = "head")
             => Classified(app') = Classified(app)
       /\ (last'.op = "pipe" /\ last'.change = "tail")
             => Classified(app')
                  = Classified(PipeTailerTurn(app, Get(last'.payload)))]_vars

\* one event line of the file, appended in two writes, has been counted as two lines:
\* its head as a decode failure, its tail as a line of output, and no event was sent
C21_EventLineReadAsTwoFragments ==
    /\ last.op = "pipe" /\ last.change = "tail"
    /\ IsSome(parse_unified_event_line(Get(last.payload)))
    /\ app.lines_fed = 1 /\ app.lines_read = 2
    /\ app.parse_failures = 1
    /\ app.tx = <<>>
    /\ state.events_received = 0

(***************************************************************************)
(* After run() has returned.  Its receivers rx, log_rx, metrics_rx,        *)
(* state_rx and response_rx are dropped with what they still held; the     *)
(* three producer threads run on.  A send on a closed channel returns Err. *)
(***************************************************************************)
\* `if self.should_quit { break; }` and `Ok(())`
RunReturn ==
    /\ app.pc = "loop"
    /\ app' = [app EXCEPT !.pc = "done", !.rx_dropped = TRUE,
                          !.tx = <<>>, !.log_tx = <<>>, !.state_tx = <<>>,
                          !.response_tx = <<>>, !.metrics_tx = <<>>]
    /\ last' = Op("run", "return", None)
    /\ UNCHANGED state

\* one turn of the metrics collector's loop: `if metrics_tx.blocking_send(..).is_err()
\* { break; }`, which waits while the channel is full
SamplerTick ==
    /\ app.pc # "new"
    /\ ~app.sampler_ended
    /\ IF app.rx_dropped
       THEN /\ app' = [app EXCEPT !.sampler_ended = TRUE]
            /\ last' = Op("sampler", "closed", None)
       ELSE /\ app.ticks < MaxTicks
            /\ Len(app.metrics_tx) < METRICS_CHANNEL_CAPACITY
            /\ app' = [app EXCEPT !.ticks = @ + 1,
                          !.metrics_tx = Append(@, [cpu |-> app.ticks + 1,
                                                    memory |-> app.ticks + 1])]
            /\ last' = Op("sampler", "sample", None)
    /\ UNCHANGED state

\* an atomic counter that nothing loads any more, held at the bound once it is reached
CountOn(n) == IF n < MaxLines + 1 THEN n + 1 ELSE n

\* one `Ok(_)` turn of the tailer after the receivers are gone: only the event send's
\* result is tested (`break`), the log send's result is discarded
PipeTailerTurnClosed(a, line) ==
    IF IsBlank(line) THEN a
    ELSE LET a1 == [a EXCEPT !.lines_read = CountOn(@)]
         IN  IF IsSome(parse_unified_event_line(line)) THEN [a1 EXCEPT !.pipe_reader = "ended"]
             ELSE IF is_potential_event(line)
                  THEN [a1 EXCEPT !.parse_failures = CountOn(@)]
             ELSE a1

PipeReadClosed ==
    /\ app.pipe_reader = "tailing"
    /\ app.rx_dropped
    /\ \E line \in Lines :
          /\ app' = PipeTailerTurnClosed(app, line)
          /\ last' = Op("pipe", "closed", None)
    /\ UNCHANGED state

\* the tailer reads an event line after the receivers are gone
PipeReadClosedEvent == PipeReadClosed /\ app'.pipe_reader = "ended"

\* one `Ok(_)` turn of the socket reader after the receivers are gone: every send is
\* `let _ = ..blocking_send(..)`, so whatever the record is, nothing changes and the
\* loop goes on
SocketReadClosed ==
    /\ app.socket_reader
    /\ app.rx_dropped
    /\ last' = Op("socket", "closed", None)
    /\ UNCHANGED <<state, app>>

\* `Ok(0) => break` and `Err(_) => break`: the server closed the socket, or it failed
SocketReaderEnd ==
    /\ app.socket_reader
    /\ app' = [app EXCEPT !.socket_reader = FALSE, !.unread = None]
    /\ last' = Op("socket", "end", None)
    /\ UNCHANGED state

NextShutdown ==
    \/ RunStart \/ SocketCheck \/ PipeSelect \/ PipeOpen
    \/ PipeReadLine \/ SocketReadMessage \/ SamplerTick \/ ConsumerFrame
    \/ RunReturn \/ PipeReadClosed \/ SocketReadClosed \/ SocketReaderEnd

\* every thread keeps taking its turns, the pipe file appears, and each input keeps
\* delivering: the socket records, the file event lines, the sampler its ticks
SpecShutdown ==
    /\ Init /\ [][NextShutdown]_vars
    /\ WF_vars(SocketCheck) /\ WF_vars(PipeSelect) /\ WF_vars(PipeOpen)
    /\ WF_vars(SamplerTick) /\ WF_vars(PipeReadClosedEvent) /\ WF_vars(SocketReadClosed)

\* C22: once run() has dropped its receivers, the socket reader, the pipe tailer and
\* the metrics sampler each eventually leave their loop, while their inputs keep
\* delivering.
C22_ProducersStop ==
    app.rx_dropped ~> (/\ ~app.socket_reader
                       /\ app.pipe_reader \in {"none", "ended"}
                       /\ app.sampler_ended)

\* the receivers are gone, the sampler and the tailer have left their loops, and the
\* socket reader has just read one more record
C22_SocketReaderOutlivesConsumer ==
    /\ app.rx_dropped
    /\ app.sampler_ended
    /\ app.pipe_reader = "ended"
    /\ app.socket_reader
    /\ last.op = "socket" /\ last.change = "closed"

(***************************************************************************)
(* Request outcomes of tool flows and of other flows                       *)
(***************************************************************************)
\* data.flowName of a trace event: a drawn flow name, or none ("unknown")
TraceFlows == {Some(f) : f \in FlowNames} \cup {None}

\* a request event of either schema for the given flow; the legacy schema always
\* carries a flow name
FlowEvent(legacy, change, rid, entry_name, flow) ==
    IF legacy
    THEN Legacy([LegacyRequestEvent(change, rid, entry_name) EXCEPT
                    !.data.flow_name = IF IsSome(flow) THEN Get(flow) ELSE "unknown"])
    ELSE LogTransport([TraceRequestEvent(change, rid, entry_name) EXCEPT
                          !.data.flowName = flow])

FlowRequest ==
    \E change \in {"start", "complete", "error"}, rid \in {"r1", "unknown"},
       name \in EntryNames, flow \in TraceFlows, legacy \in BOOLEAN :
        /\ last.n < MaxFlowEvents
        /\ state' = handle_unified_event(state, FlowEvent(legacy, change, rid, name, flow))
        /\ last' = [n |-> last.n + 1, op |-> IF legacy THEN "legacy" ELSE "trace",
                    kind |-> "request", change |-> change,
                    payload |-> Some([id |-> rid, entry_name |-> name, flow |-> flow])]
        /\ UNCHANGED app

\* a "tool:complete" trace event
FlowToolComplete ==
    \E name \in EntryNames :
        /\ last.n < MaxFlowEvents
        /\ state' = handle_unified_event(state, LogTransport(
               TraceEvent("tool:complete", "unknown", "unknown",
                          [NoData EXCEPT !.entryName = name, !.durationMs = Some(5)])))
        /\ last' = [n |-> last.n + 1, op |-> "trace", kind |-> "tool",
                    change |-> "complete", payload |-> Some([entry_name |-> name])]
        /\ UNCHANGED app

NextFlow == FlowRequest \/ FlowToolComplete

SpecFlow == Init /\ [][NextFlow]_vars

\* the step folds a request complete or error event
IsOutcomeStep(l) == l.kind = "request" /\ l.change \in {"complete", "error"}

\* whether the event's flow name contains "tool"
IsToolFlow(l) == IsSome(Get(l.payload).flow) /\ ContainsTool(Get(Get(l.payload).flow))

\* the Metrics aggregate of request outcomes
Aggregate(S) ==
    [total |-> S.metrics.total_requests, ok |-> S.metrics.successful_requests,
     failed |-> S.metrics.failed_requests, duration |-> S.metrics.total_duration_ms,
     usage |-> S.metrics.tool_usage]

\* C23: a request complete or error event whose flow name does not contain "tool"
\* leaves total_requests, successful_requests, failed_requests, total_duration_ms,
\* tool_usage and overview.last_tool_calls as they were.
C23_OtherFlowsLeaveMetrics ==
    [][(IsOutcomeStep(last') /\ ~IsToolFlow(last'))
       => /\ Aggregate(state') = Aggregate(state)
          /\ state'.overview.last_tool_calls = state.overview.last_tool_calls]_vars

\* a complete event of the flow "resources:read-resource" was the only event folded,
\* and it is counted as a request with its duration; tool usage and outcomes are empty
C23_ResourceReadCounted ==
    /\ last.n = 1 /\ IsOutcomeStep(last) /\ last.change = "complete"
    /\ Get(last.payload).flow = Some("resources:read-resource")
    /\ state.metrics.total_requests = 1
    /\ state.metrics.successful_requests = 1
    /\ state.metrics.total_duration_ms = 5
    /\ DOMAIN state.metrics.tool_usage = {}
    /\ state.overview.last_tool_calls = <<>>

\* the entry name a complete/error event resolves to: the event's own, else the one
\* of the stored request with the event's id
ResolvedName(S, l) ==
    LET p == Get(l.payload)
        i == IF p.id = "unknown" THEN 0 ELSE FindRequest(S.requests, p.id)
    IN  IF IsSome(p.entry_name) \/ i = 0 THEN p.entry_name ELSE S.requests[i].entry_name

\* tool_usage[name], 0 when the name has no entry
UsageOf(S, name) ==
    IF name \in DOMAIN S.metrics.tool_usage THEN S.metrics.tool_usage[name] ELSE 0

CallEvents ==
    { [e |-> TraceRequestEvent("complete", "unknown", Some("n1")), name |-> "n1", ok |-> TRUE],
      [e |-> TraceRequestEvent("error", "unknown", Some("n2")), name |-> "n2", ok |-> FALSE],
      [e |-> TraceEvent("tool:complete", "unknown", "unknown",
                        [NoData EXCEPT !.entryName = Some("n3"), !.durationMs = Some(7)]),
       name |-> "n3", ok |-> TRUE] }

CallRecorded ==
    \E c \in CallEvents :
        /\ last.n < MaxCalls
        /\ state' = handle_unified_event(state, LogTransport(c.e))
        /\ last' = [n |-> last.n + 1, op |-> "trace", kind |-> "call", change |-> c.name,
                    payload |-> Some([ok |-> c.ok])]
        /\ UNCHANGED app

NextCalls == CallRecorded

SpecCalls == Init /\ [][NextCalls]_vars

\* C25: overview.last_tool_calls never holds more than 5 entries and is ordered newest
\* first; each recorded tool outcome is inserted at the head, the entries behind it
\* keep their order, and when a sixth is recorded the one dropped is the oldest.
C25_LastToolCallsNewestFirst ==
    /\ [](LET calls == state.overview.last_tool_calls
          IN  /\ Len(calls) <= 5
              /\ \A i, j \in DOMAIN calls : i < j => calls[i].timestamp > calls[j].timestamp)
    /\ [][last'.kind = "call"
          => LET old == state.overview.last_tool_calls
                 new == state'.overview.last_tool_calls
             IN  /\ Len(new) = Min(Len(old) + 1, 5)
                 /\ new[1].name = last'.change
                 /\ new[1].success = Get(last'.payload).ok
                 /\ \A i \in 2..Len(new) : new[i] = old[i - 1]]_vars

\* six outcomes have been recorded: the list holds five, the newest at its head, and the
\* first one recorded is gone
C25_SixthOutcomeEvictsFirst ==
    /\ last.kind = "call" /\ last.n = 6
    /\ Len(state.overview.last_tool_calls) = 5
    /\ state.overview.last_tool_calls[1].name = last.change
    /\ state.metrics.total_requests = 6

\* C26: after every fold of an event or a snapshot, overview.total_sessions is the
\* number of stored sessions and overview.active_sessions the number of stored
\* sessions whose is_active flag is set.
C26_SessionCountsRecomputed ==
    /\ state.overview.total_sessions = Cardinality(DOMAIN state.sessions)
    /\ state.overview.active_sessions
         = Cardinality({id \in DOMAIN state.sessions : state.sessions[id].is_active})

\* a snapshot has been folded over a Store that held a disconnected session the
\* snapshot does not list: that session is still counted, and not as active
C26_SnapshotOverDisconnected ==
    /\ last.op = "snapshot"
    /\ state.overview.total_sessions >= 2
    /\ state.overview.active_sessions >= 1
    /\ state.overview.active_sessions < state.overview.total_sessions

(***************************************************************************)
(* The ownership graph: ui/tabs/graph.rs flattens the Store's collections  *)
(* and graph_expanded into a list of (GraphNode, depth); graph_tree_len    *)
(* counts that list in the Store; the input handler's Graph keys move      *)
(* graph_selected and edit graph_expanded.                                 *)
(***************************************************************************)
\* a GraphNode with its depth; the fields a variant does not have are "" / None
GraphNode(kind, id, name, scope_id, owner_app, owner_kind, owner_id, depth) ==
    [kind |-> kind, id |-> id, name |-> name, scope_id |-> scope_id,
     owner_app |-> owner_app, owner_kind |-> owner_kind, owner_id |-> owner_id,
     depth |-> depth]

\* String's Ord on the names and ids the model draws (byte order)
NameOrder == <<"A1", "A2", "a", "b", "c", "d", "p", "q", "r", "s1", "s2", "t", "u", "z">>
Rank(str) == CHOOSE i \in DOMAIN NameOrder : NameOrder[i] = str

RECURSIVE Concat(_)
\* the pushes of a loop, one sequence per iteration
Concat(seqs) == IF seqs = <<>> THEN <<>> ELSE Head(seqs) \o Concat(Tail(seqs))

\* matches!(x.owner_kind.as_deref(), Some("app") | Some("scope"))
IsAppOrScope(x) == x.owner_kind \in {Some("app"), Some("scope")}

\* the app_ids HashSet that infer_apps and graph_tree_len both fill
InferAppIds(S) ==
    LET owned(coll) == {Get(coll[i].owner_id) : i \in {j \in DOMAIN coll :
                           IsAppOrScope(coll[j]) /\ IsSome(coll[j].owner_id)}}
        any(coll) == {Get(coll[i].owner_id) : i \in {j \in DOMAIN coll :
                           IsSome(coll[j].owner_id)}}
    IN  owned(S.tools) \cup owned(S.resources) \cup owned(S.prompts)
          \cup any(S.plugins) \cup any(S.adapters)

\* state.apps.iter().find(|a| a.id == id).map(name).unwrap_or(id)
AppName(S, id) ==
    IF \E i \in DOMAIN S.apps : S.apps[i].id = id
    THEN S.apps[CHOOSE i \in DOMAIN S.apps :
                   S.apps[i].id = id /\ \A j \in 1..(i - 1) : S.apps[j].id # id].name
    ELSE id

\* app_scope_map.get(&id).or_else(|| scopes.find(|s| s.id == id).map(|s| s.id))
AppScope(S, id) ==
    IF id \in DOMAIN S.app_scope_map THEN Some(S.app_scope_map[id])
    ELSE IF \E i \in DOMAIN S.scopes : S.scopes[i].id = id THEN Some(id)
    ELSE None

RECURSIVE SortByName(_)
\* apps.sort_by(|a, b| a.1.cmp(&b.1)); every name the Store gives an app is its id, so
\* no two apps compare equal
SortByName(apps) ==
    IF apps = {} THEN <<>>
    ELSE LET first == CHOOSE a \in apps : \A b \in apps : Rank(a.name) <= Rank(b.name)
         IN  <<first>> \o SortByName(apps \ {first})

infer_apps(S) ==
    SortByName({[id |-> id, name |-> AppName(S, id), scope_id |-> AppScope(S, id)] :
                   id \in InferAppIds(S)})

\* iter().filter(..) over a collection, the predicate given as the indices it keeps
Keep(coll, idx) == Filter(coll, {coll[i] : i \in idx})

\* the tools of kind `kind` ("plugin" / "adapter") owned by `name`
ToolsOwnedBy(S, kind, name) ==
    Keep(S.tools, {i \in DOMAIN S.tools :
        S.tools[i].owner_kind = Some(kind) /\ S.tools[i].owner_id = Some(name)})

\* the entries of a collection owned directly by the app or scope `app_id`
OwnedByApp(coll, app_id) ==
    Keep(coll, {i \in DOMAIN coll : IsAppOrScope(coll[i]) /\ coll[i].owner_id = Some(app_id)})

\* Tool / Resource / Prompt nodes that copy the entry's owner
LeafNodes(kind, entries, depth) ==
    [i \in DOMAIN entries |->
        GraphNode(kind, "", entries[i].name, None, "", entries[i].owner_kind,
                  entries[i].owner_id, depth)]

\* an Adapter or Plugin node followed, when its key is expanded, by its tools
HolderNodes(S, kind, key, holder, app_id, depth) ==
    LET tools == ToolsOwnedBy(S, key, holder.name)
    IN  <<GraphNode(kind, "", holder.name, None, app_id, None, None, depth)>>
        \o IF (key \o ":" \o holder.name) \in S.graph_expanded
           THEN [i \in DOMAIN tools |->
                    GraphNode("Tool", "", tools[i].name, None, "", Some(key),
                              Some(holder.name), depth + 1)]
           ELSE <<>>

add_app_nodes(S, app_id, app_name, scope_id, base_depth) ==
    LET adapters == Keep(S.adapters, {i \in DOMAIN S.adapters :
                        S.adapters[i].owner_id = Some(app_id)})
        plugins == Keep(S.plugins, {i \in DOMAIN S.plugins :
                        S.plugins[i].owner_id = Some(app_id)})
    IN  <<GraphNode("App", app_id, app_name, scope_id, "", None, None, base_depth)>>
        \o IF app_id \in S.graph_expanded
           THEN Concat([i \in DOMAIN adapters |->
                    HolderNodes(S, "Adapter", "adapter", adapters[i], app_id, base_depth + 1)])
                \o Concat([i \in DOMAIN plugins |->
                    HolderNodes(S, "Plugin", "plugin", plugins[i], app_id, base_depth + 1)])
                \o LeafNodes("Tool", OwnedByApp(S.tools, app_id), base_depth + 1)
                \o LeafNodes("Resource", OwnedByApp(S.resources, app_id), base_depth + 1)
                \o LeafNodes("Prompt", OwnedByApp(S.prompts, app_id), base_depth + 1)
           ELSE <<>>

\* entries with owner_kind None
Direct(coll) == Keep(coll, {i \in DOMAIN coll : coll[i].owner_kind = None})

build_graph_nodes(S) ==
    LET apps == infer_apps(S)
        server == <<GraphNode("Server", "", "", None, "", None, None, 0)>>
        header == <<GraphNode("DirectHeader", "", "", None, "", None, None, 1)>>
        under(scope) == Keep(apps, {i \in DOMAIN apps : apps[i].scope_id = Some(scope.id)})
        orphans == Keep(apps, {i \in DOMAIN apps : apps[i].scope_id = None})
        \* the scope id handed to add_app_nodes is the app's own in all three loops:
        \* Some(&scope.id) for the apps filtered by it, None for the orphans
        app_nodes(list, depth) ==
            Concat([i \in DOMAIN list |->
                add_app_nodes(S, list[i].id, list[i].name, list[i].scope_id, depth)])
    IN  IF Len(S.scopes) > 1
        THEN server
             \o Concat([k \in DOMAIN S.scopes |->
                   <<GraphNode("Scope", S.scopes[k].id, S.scopes[k].name, None, "", None,
                               None, 1)>>
                   \o IF ("scope:" \o S.scopes[k].id) \in S.graph_expanded
                      THEN app_nodes(under(S.scopes[k]), 2)
                      ELSE <<>>])
             \o IF orphans # <<>> THEN header \o app_nodes(orphans, 2) ELSE <<>>
        ELSE server
             \o app_nodes(apps, 1)
             \o IF Direct(S.tools) # <<>> \/ Direct(S.resources) # <<>>
                   \/ Direct(S.prompts) # <<>>
                THEN header \o LeafNodes("Tool", Direct(S.tools), 2)
                     \o LeafNodes("Resource", Direct(S.resources), 2)
                     \o LeafNodes("Prompt", Direct(S.prompts), 2)
                ELSE <<>>

\* nodes.get(index): indices count from 0
get_node_at_index(S, index) ==
    LET nodes == build_graph_nodes(S)
    IN  IF index < Len(nodes) THEN Some(nodes[index + 1]) ELSE None

\* the sum of f over a finite set of ids, f given as a function
RECURSIVE SumOver(_, _)
SumOver(ids, f) ==
    IF ids = {} THEN 0
    ELSE LET id == CHOOSE x \in ids : TRUE IN f[id] + SumOver(ids \ {id}, f)

\* DashboardState::count_app_nodes
count_app_nodes(S, app_id) ==
    LET adapters == Keep(S.adapters, {i \in DOMAIN S.adapters :
                        S.adapters[i].owner_id = Some(app_id)})
        plugins == Keep(S.plugins, {i \in DOMAIN S.plugins :
                        S.plugins[i].owner_id = Some(app_id)})
        held(key, holders) ==
            SumOver(DOMAIN holders,
                    [i \in DOMAIN holders |->
                        1 + IF (key \o ":" \o holders[i].name) \in S.graph_expanded
                            THEN Len(ToolsOwnedBy(S, key, holders[i].name)) ELSE 0])
    IN  1 + IF app_id \in S.graph_expanded
            THEN held("adapter", adapters) + held("plugin", plugins)
                 + Len(OwnedByApp(S.tools, app_id)) + Len(OwnedByApp(S.resources, app_id))
                 + Len(OwnedByApp(S.prompts, app_id))
            ELSE 0

\* DashboardState::graph_tree_len
graph_tree_len(S) ==
    LET app_ids == InferAppIds(S)
        is_scope(id) == \E i \in DOMAIN S.scopes : S.scopes[i].id = id
        count(ids) == SumOver(ids, [id \in ids |-> count_app_nodes(S, id)])
        orphan_apps == {id \in app_ids : ~is_scope(id)}
        direct == Len(Direct(S.tools)) + Len(Direct(S.resources)) + Len(Direct(S.prompts))
    IN  IF Len(S.scopes) > 1
        THEN 1 + SumOver(DOMAIN S.scopes,
                    [k \in DOMAIN S.scopes |->
                        1 + IF ("scope:" \o S.scopes[k].id) \in S.graph_expanded
                            THEN count({id \in app_ids :
                                        is_scope(id) /\ id = S.scopes[k].id})
                            ELSE 0])
               + IF orphan_apps # {} THEN 1 + count(orphan_apps) ELSE 0
        ELSE 1 + count(app_ids) + IF direct > 0 THEN 1 + direct ELSE 0

\* the expanded-set key of an expandable node, None for the other nodes
ExpandKey(node) ==
    CASE node.kind = "Scope" -> Some("scope:" \o node.id)
      [] node.kind = "App" -> Some(node.id)
      [] node.kind = "Plugin" -> Some("plugin:" \o node.name)
      [] node.kind = "Adapter" -> Some("adapter:" \o node.name)
      [] OTHER -> None

\* DashboardState::toggle_graph_expand
toggle_graph_expand(S, id) ==
    [S EXCEPT !.graph_expanded = IF id \in @ THEN @ \ {id} ELSE @ \cup {id}]

\* usize::saturating_sub
SatSub(a, b) == IF a > b THEN a - b ELSE 0

\* KeyCode::Left, first half: (collapse_key, is_child) of the selected node
CollapseTarget(S, node) ==
    LET own == ExpandKey(node)
        owner_key ==
            CASE node.owner_kind = Some("plugin") /\ IsSome(node.owner_id)
                     /\ node.kind = "Tool" -> Some("plugin:" \o Get(node.owner_id))
              [] node.owner_kind = Some("adapter") /\ IsSome(node.owner_id)
                     /\ node.kind = "Tool" -> Some("adapter:" \o Get(node.owner_id))
              [] IsAppOrScope(node) /\ IsSome(node.owner_id) -> node.owner_id
              [] OTHER -> None
    IN  CASE node.kind = "Scope" ->
                 IF Get(own) \in S.graph_expanded THEN <<own, FALSE>> ELSE <<None, FALSE>>
          [] node.kind = "App" ->
                 IF node.id \in S.graph_expanded THEN <<own, FALSE>>
                 ELSE IF IsSome(node.scope_id)
                      THEN <<Some("scope:" \o Get(node.scope_id)), TRUE>>
                 ELSE <<None, FALSE>>
          [] node.kind \in {"Plugin", "Adapter"} ->
                 IF Get(own) \in S.graph_expanded THEN <<own, FALSE>>
                 ELSE <<Some(node.owner_app), TRUE>>
          [] node.kind \in {"Tool", "Resource", "Prompt"} -> <<owner_key, TRUE>>
          [] OTHER -> <<None, FALSE>>

\* KeyCode::Left, second half: `for i in (0..graph_selected).rev()` up to the first
\* node whose key is `key`; graph_selected stays when there is none
SelectParent(S, key) ==
    LET nodes == build_graph_nodes(S)
        hits == {i \in 0..(S.graph_selected - 1) :
                    i < Len(nodes) /\ ExpandKey(nodes[i + 1]) = Some(key)}
    IN  IF hits = {} THEN S.graph_selected
        ELSE CHOOSE i \in hits : \A j \in hits : j <= i

\* handle_list on the Graph tab, one key.  Enter on a node without a key only moves
\* the focus to the detail view, from which Esc comes back to the list: the graph
\* fields stay as they are
GraphKey(S, key) ==
    LET node == get_node_at_index(S, S.graph_selected)
        max == SatSub(graph_tree_len(S), 1)
    IN  CASE key = "Up" -> [S EXCEPT !.graph_selected = SatSub(@, 1)]
          [] key = "Down" -> [S EXCEPT !.graph_selected = Min(@ + 1, max)]
          [] key = "Enter" ->
                 IF IsSome(node) /\ IsSome(ExpandKey(Get(node)))
                 THEN toggle_graph_expand(S, Get(ExpandKey(Get(node))))
                 ELSE S
          [] key = "Right" ->
                 IF IsSome(node) /\ IsSome(ExpandKey(Get(node)))
                 THEN [S EXCEPT !.graph_expanded = @ \cup {Get(ExpandKey(Get(node)))}]
                 ELSE S
          [] key = "Left" ->
                 IF IsSome(node) /\ IsSome(CollapseTarget(S, Get(node))[1])
                 THEN LET target == CollapseTarget(S, Get(node))
                      IN  [S EXCEPT !.graph_selected =
                                        IF target[2] THEN SelectParent(S, Get(target[1]))
                                        ELSE @,
                                    !.graph_expanded = @ \ {Get(target[1])}]
                 ELSE S

\* snapshots for the graph: one scope with an app, a plugin, an adapter and entries of
\* the scope itself; two scopes whose apps each carry the plugin "p"
GraphSnapshots ==
    { [server |-> [name |-> "srv", version |-> "1"],
       scopes |-> <<SnapScope("s1",
                      <<SnapItem("b", AppOwner("A1")), SnapItem("a", AppOwner("A1")),
                        SnapItem("t", Some([kind |-> "plugin", id |-> "p"])),
                        SnapItem("u", Some([kind |-> "adapter", id |-> "d"])),
                        SnapItem("c", None)>>,
                      <<SnapItem("r", AppOwner("A1"))>>, <<SnapItem("q", None)>>,
                      <<SnapItem("p", AppOwner("A1"))>>, <<SnapItem("d", AppOwner("A1"))>>)>>,
       sessions |-> <<>>],
      [server |-> [name |-> "srv", version |-> "1"],
       scopes |-> <<SnapScope("s1",
                      <<SnapItem("a", AppOwner("A1")), SnapItem("c", None)>>,
                      <<>>, <<>>, <<SnapItem("p", AppOwner("A1"))>>, <<>>),
                    SnapScope("s2",
                      <<SnapItem("t", Some([kind |-> "plugin", id |-> "p"]))>>,
                      <<>>, <<>>, <<SnapItem("p", AppOwner("A2"))>>, <<>>)>>,
       sessions |-> <<>>] }

GraphSnapshot ==
    \E snapshot \in GraphSnapshots :
        /\ last.n < MaxGraphLoads
        /\ state' = handle_state_snapshot(state, snapshot)
        /\ last' = [n |-> last.n + 1, op |-> "snapshot", kind |-> "", change |-> "",
                    payload |-> None]
        /\ UNCHANGED app

\* a legacy ToolAdded without owner: a tool with owner_kind None
GraphToolAdded ==
    /\ last.n < MaxGraphLoads
    /\ state' = handle_unified_event(state, Legacy(LegacyRegistryEvent("tool", "added",
                    [names |-> Some(<<"z">>), entries |-> None, owner |-> None])))
    /\ last' = [n |-> last.n + 1, op |-> "legacy", kind |-> "tool", change |-> "added",
                payload |-> None]
    /\ UNCHANGED app

GraphKeyPress ==
    \E key \in {"Up", "Down", "Enter", "Right", "Left"} :
        /\ state' = GraphKey(state, key)
        /\ last' = [n |-> last.n, op |-> "key", kind |-> "graph", change |-> key,
                    payload |-> None]
        /\ UNCHANGED app

NextGraph == GraphSnapshot \/ GraphToolAdded \/ GraphKeyPress

SpecGraph == Init /\ [][NextGraph]_vars

(***************************************************************************)
(* Properties of the ownership graph                                       *)
(***************************************************************************)
\* the positions after i that belong to the subtree of nodes[i]: the run of nodes
\* deeper than nodes[i] that follows it
Subtree(nodes, i) ==
    {j \in (i + 1)..Len(nodes) :
        \A k \in (i + 1)..j : nodes[k].depth > nodes[i].depth}

\* the list without the given positions
Without(nodes, drop) ==
    LET upto[k \in 0..Len(nodes)] ==
            IF k = 0 THEN <<>>
            ELSE IF k \in drop THEN upto[k - 1] ELSE Append(upto[k - 1], nodes[k])
    IN  upto[Len(nodes)]

\* C27: the children of a Scope, App, Plugin or Adapter node are in the list only when
\* the node's key (scope:<id>, bare app id, plugin:<name>, adapter:<name>) is in
\* graph_expanded, and taking the key of an expanded node out of graph_expanded takes
\* exactly that node's subtree out of the list.
C27_KeyGovernsOwnSubtree ==
    LET nodes == build_graph_nodes(state)
    IN  \A i \in DOMAIN nodes :
           IsSome(ExpandKey(nodes[i]))
           => LET key == Get(ExpandKey(nodes[i]))
              IN  IF key \in state.graph_expanded
                  THEN build_graph_nodes([state EXCEPT !.graph_expanded = @ \ {key}])
                         = Without(nodes, Subtree(nodes, i))
                  ELSE Subtree(nodes, i) = {}

\* two Plugin nodes named "p", under different apps, are both open and both list tools
C27_TwoPluginNodesShareKey ==
    LET nodes == build_graph_nodes(state)
    IN  \E i, j \in DOMAIN nodes :
           /\ i < j
           /\ nodes[i].kind = "Plugin" /\ nodes[j].kind = "Plugin"
           /\ nodes[i].name = nodes[j].name /\ nodes[i].owner_app # nodes[j].owner_app
           /\ "plugin:p" \in state.graph_expanded
           /\ Subtree(nodes, i) # {} /\ Subtree(nodes, j) # {}

\* C28: graph_tree_len() is the number of nodes build_graph_nodes() produces, in
\* single-scope and in multi-scope mode, whatever scope app_scope_map gives an app.
C28_TreeLenIsNodeCount ==
    graph_tree_len(state) = Len(build_graph_nodes(state))

\* two scopes are stored, app_scope_map places the app "A1" in scope "s1", and the two
\* counts differ
C28_MappedAppCountedAsOrphan ==
    /\ Len(state.scopes) > 1
    /\ "A1" \in DOMAIN state.app_scope_map
    /\ state.app_scope_map["A1"] = "s1"
    /\ graph_tree_len(state) > Len(build_graph_nodes(state))

\* positions i < j of the list that are siblings: same depth, nothing shallower between
Siblings(nodes, i, j) ==
    /\ i < j
    /\ nodes[i].depth = nodes[j].depth
    /\ \A k \in i..j : nodes[k].depth >= nodes[i].depth

\* C29: siblings of the flattened graph are ordered by name: app nodes ascending, and
\* the adapters, the plugins, the tools, the resources and the prompts under one parent
\* each sorted by name, whatever the order in which they were registered.
C29_SiblingsSortedByName ==
    LET nodes == build_graph_nodes(state)
    IN  \A i, j \in DOMAIN nodes :
           (/\ Siblings(nodes, i, j)
            /\ nodes[i].kind = nodes[j].kind
            /\ nodes[i].kind \in {"App", "Adapter", "Plugin", "Tool", "Resource", "Prompt"})
           => Rank(nodes[i].name) <= Rank(nodes[j].name)

\* the open app "A1" lists its tool "b" before its tool "a", the order of the snapshot
C29_ToolsInRegistrationOrder ==
    LET nodes == build_graph_nodes(state)
    IN  \E i \in DOMAIN nodes :
           /\ i < Len(nodes)
           /\ nodes[i].kind = "Tool" /\ nodes[i].name = "b"
           /\ nodes[i].owner_id = Some("A1")
           /\ nodes[i + 1].kind = "Tool" /\ nodes[i + 1].name = "a"
           /\ nodes[i + 1].owner_id = Some("A1")

\* the position (from 0) of the parent of the node at position i > 0: the nearest
\* preceding node that is less deep
ParentOf(nodes, i) ==
    CHOOSE p \in 0..(i - 1) :
        /\ nodes[p + 1].depth < nodes[i + 1].depth
        /\ \A q \in (p + 1)..(i - 1) : nodes[q + 1].depth >= nodes[i + 1].depth

\* C30: Left on an expanded Scope, App, Plugin or Adapter node takes its key out of
\* graph_expanded and leaves graph_selected on it; Left on a child (a tool, resource or
\* prompt with an owner, or a collapsed plugin, adapter or app) whose parent is such a
\* node moves graph_selected to that parent, takes the parent's key out of
\* graph_expanded, and graph_selected is an index of the list as it is afterwards.
C30_LeftCollapsesOrSelectsParent ==
    [][(/\ last'.op = "key" /\ last'.change = "Left"
        /\ state.graph_selected < Len(build_graph_nodes(state)))
       => LET nodes == build_graph_nodes(state)
              i == state.graph_selected
              node == nodes[i + 1]
              key == ExpandKey(node)
              open == IsSome(key) /\ Get(key) \in state.graph_expanded
              child == \/ node.kind \in {"Tool", "Resource", "Prompt"}
                          /\ IsSome(node.owner_kind)
                       \/ node.kind \in {"Plugin", "Adapter", "App"} /\ ~open
              parent == nodes[ParentOf(nodes, i) + 1]
          IN  /\ open => /\ state'.graph_expanded = state.graph_expanded \ {Get(key)}
                         /\ state'.graph_selected = i
              /\ (child /\ IsSome(ExpandKey(parent)))
                  => /\ state'.graph_selected = ParentOf(nodes, i)
                     /\ state'.graph_expanded
                          = state.graph_expanded \ {Get(ExpandKey(parent))}
                     /\ state'.graph_selected < Len(build_graph_nodes(state'))]_vars

\* Left has just been pressed with both scopes and both apps open, the plugin key is
\* gone, and graph_selected is the length of the list: one past its last node
C30_SelectionPastEndAfterLeft ==
    /\ last.op = "key" /\ last.change = "Left"
    /\ {"scope:s1", "scope:s2", "A1", "A2"} \subseteq state.graph_expanded
    /\ "plugin:p" \notin state.graph_expanded
    /\ state.graph_selected = Len(build_graph_nodes(state))

(***************************************************************************)
(* Command responses in the Store                                          *)
(***************************************************************************)
\* the Store apart from the global log ring and the clock its timestamps are read from
ExceptLogs(S) == [S EXCEPT !.logs = <<>>, !.clock = 0]

\* the consumer iteration as it would run with no response waiting
FrameWithoutResponses == Frame(state, [app EXCEPT !.response_tx = <<>>])

\* C31: the responses a consumer iteration folds add one log entry each, from source
\* "socket", at info level for a success and at error level for a failure, after what
\* the rest of the iteration logged, and leave every other field of the Store as the
\* iteration without them leaves it; the steps of send_command leave the Store alone;
\* and the consumer iteration can always run, whatever commands are still unanswered.
C31_ResponseOnlyLogs ==
    /\ [][last'.op = "frame"
          => LET rs == app.response_tx
                 base == FrameWithoutResponses
                 n == Len(base.logs)
             IN  /\ ExceptLogs(state') = ExceptLogs(base)
                 /\ Len(state'.logs) = n + Len(rs)
                 /\ SubSeq(state'.logs, 1, n) = base.logs
                 /\ \A i \in DOMAIN rs :
                       /\ state'.logs[n + i].source = "socket"
                       /\ state'.logs[n + i].level
                            = IF rs[i].success THEN "Info" ELSE "Error"
                       /\ state'.logs[n + i].session_id = None]_vars
    /\ [][last'.op = "send" => state' = state]_vars
    /\ [](app.pc = "loop" => ENABLED ConsumerFrame)

\* a consumer iteration has just run, the log holds the error entry of a failed command,
\* and a command that was sent has no entry: fewer entries from "socket" than ids returned
C31_FailureLoggedOneUnanswered ==
    /\ last.op = "frame"
    /\ \E i \in DOMAIN state.logs :
          state.logs[i].source = "socket" /\ state.logs[i].level = "Error"
    /\ Cardinality({i \in DOMAIN state.logs : state.logs[i].source = "socket"})
         < Len(app.handle.returned)

(***************************************************************************)
(* Session logs across connects and snapshots                              *)
(***************************************************************************)
\* `old` survives in `new` up to eviction: it is a prefix of `new`, or `new` is full and
\* starts with what is left of `old`
KeptUpToCap(old, new, cap) ==
    \/ /\ Len(old) <= Len(new)
       /\ SubSeq(new, 1, Len(old)) = old
    \/ /\ Len(new) = cap
       /\ \E k \in 1..Len(old) :
             SubSeq(new, 1, Len(old) - k) = SubSeq(old, k + 1, Len(old))

\* C32: an entry in a session's private log stays there until the cap of 500 evicts it:
\* over every step each session's log keeps its entries, also when the step folds the
\* session's connect event or a snapshot that names the session.
C32_SessionLogKept ==
    [][\A sid \in DOMAIN state.session_logs :
          /\ sid \in DOMAIN state'.session_logs
          /\ KeptUpToCap(state.session_logs[sid], state'.session_logs[sid],
                         SESSION_LOG_CAP)]_vars

\* a connect has just been folded for a session and its private log holds one entry
\* while the global log holds more than one entry tagged with that session
C32_ConnectEmptiedSessionLog ==
    /\ last.kind = "session" /\ last.change = "connect"
    /\ LET sid == Get(last.payload)
       IN  /\ sid \in DOMAIN state.session_logs
           /\ Len(state.session_logs[sid]) = 1
           /\ Cardinality({i \in DOMAIN state.logs :
                             state.logs[i].session_id = Some(sid)}) > 1

(***************************************************************************)
(* events_received: what the consumer folds, one input per step, with the   *)
(* number of Legacy and LogTransport events among them kept in `last`      *)
(***************************************************************************)
\* Legacy and LogTransport events of recognised and unrecognised kinds
CountedEvents ==
    { LogTransport(TraceEvent("session:connect", "x1", "unknown", NoData)),
      LogTransport(TraceEvent("server:ready", "unknown", "unknown", NoData)),
      LogTransport(TraceEvent("custom:event", "x1", "unknown", NoData)),
      LogTransport([TraceEvent("cpu", "unknown", "unknown", NoData)
                       EXCEPT !.category = "metric"]),
      LogTransport([TraceEvent("", "x1", "unknown", NoData) EXCEPT !.category = "log"]),
      Legacy(LegacySessionEvent("Connect", "x2")),
      Legacy(LegacySessionEvent("Idle", "x2")),
      Legacy(ToolAddedA),
      Legacy([category |-> "config", event_type |-> "Loaded"]) }

\* the number of Legacy and LogTransport events folded so far
Counted == IF last.op = "counter" THEN Get(last.payload) ELSE 0

CounterStep(kind, S, counted) ==
    /\ last.n < MaxCounterSteps
    /\ state' = S
    /\ last' = [n |-> last.n + 1, op |-> "counter", kind |-> kind, change |-> "",
                payload |-> Some(counted)]
    /\ UNCHANGED app

CounterEvent ==
    \E event \in CountedEvents :
        CounterStep("event", handle_unified_event(state, event), Counted + 1)

CounterError ==
    CounterStep("error", handle_unified_event(state, [kind |-> "Error", e |-> "msg"]),
                Counted)

CounterSnapshot ==
    \E snapshot \in Snapshots :
        CounterStep("snapshot", handle_state_snapshot(state, snapshot), Counted)

CounterResponse ==
    \E ok \in BOOLEAN :
        CounterStep("response",
                    handle_command_response(state, [command_id |-> 0, success |-> ok]),
                    Counted)

CounterRawLine ==
    \E line \in {l \in Lines : l.form # "prefixed"} :
        CounterStep("raw", add_raw_log(state, line), Counted)

NextCounter ==
    CounterEvent \/ CounterError \/ CounterSnapshot \/ CounterResponse \/ CounterRawLine

SpecCounter == Init /\ [][NextCounter]_vars

\* C33: events_received is the number of Legacy and LogTransport events folded so far,
\* recognised or not; Error events, state snapshots, command responses and raw log
\* lines do not count.
C33_EventsReceivedCountsEvents ==
    state.events_received = Counted

\* three inputs were folded, the last an Error event, and one event that counts is
\* among them while parse_failures went up
C33_OneCountedAmongThree ==
    /\ last.op = "counter" /\ last.kind = "error" /\ last.n = 3
    /\ state.events_received = 1
    /\ state.parse_failures = 1

(***************************************************************************)
(* One sequence of session and request events, each delivered in either    *)
(* wire schema; `last.payload` keeps the sequence, schema left out         *)
(***************************************************************************)
\* the event `e` = [kind, change, id, entry_name] as the legacy schema (DevEvent) or the
\* trace schema (DevBusLogEvent) carries it, with the same ids and payload fields
InSchema(e, legacy) ==
    IF e.kind = "session"
    THEN IF legacy
         THEN Legacy(LegacySessionEvent(IF e.change = "connect" THEN "Connect"
                                        ELSE "Disconnect", e.id))
         ELSE LogTransport(TraceEvent(IF e.change = "connect" THEN "session:connect"
                                      ELSE "session:disconnect", e.id, "unknown",
                                      [NoData EXCEPT !.transportType = Some("sse")]))
    ELSE IF legacy
         THEN Legacy(LegacyRequestEvent(e.change, e.id, e.entry_name))
         ELSE LogTransport([TraceRequestEvent(e.change, e.id, e.entry_name) EXCEPT
                               !.data.errorMessage =
                                   IF e.change = "error" THEN Some("boom") ELSE None])

SchemaEvents ==
    [kind : {"session"}, change : {"connect", "disconnect"}, id : {"x1"},
     entry_name : {None}]
    \cup [kind : {"request"}, change : {"start", "complete", "error"}, id : {"r1"},
          entry_name : {None, Some("n1")}]

\* the events folded so far
History == IF last.op = "schema" THEN Get(last.payload) ELSE <<>>

SchemaFold ==
    \E e \in SchemaEvents, legacy \in BOOLEAN :
        /\ last.n < MaxSchemaEvents
        /\ state' = handle_unified_event(state, InSchema(e, legacy))
        /\ last' = [n |-> last.n + 1, op |-> "schema", kind |-> e.kind,
                    change |-> e.change, payload |-> Some(Append(History, e))]
        /\ UNCHANGED app

SpecSchema == Init /\ [][SchemaFold]_vars

\* the Store after the whole sequence is folded in one schema
RECURSIVE FoldInSchema(_, _, _)
FoldInSchema(S, events, legacy) ==
    IF events = <<>> THEN S
    ELSE FoldInSchema(handle_unified_event(S, InSchema(Head(events), legacy)),
                      Tail(events), legacy)

\* what the two schemas are compared on: session ids with their active flags, request
\* records (id, entry name, duration, error flag), the Metrics request totals
SchemaView(S) ==
    [sessions |-> [sid \in DOMAIN S.sessions |-> S.sessions[sid].is_active],
     requests |-> [i \in DOMAIN S.requests |->
                      [id |-> S.requests[i].id, entry_name |-> S.requests[i].entry_name,
                       duration_ms |-> S.requests[i].duration_ms,
                       is_error |-> S.requests[i].is_error]],
     totals |-> [total |-> S.metrics.total_requests,
                 ok |-> S.metrics.successful_requests,
                 failed |-> S.metrics.failed_requests,
                 duration |-> S.metrics.total_duration_ms]]

\* C34: the sessions, the request records and the Metrics request totals after a sequence
\* of session connect/disconnect and request start/complete/error events are the same
\* whichever schema each event came in: the Store, fed any mix of the two schemas, shows
\* what the all-legacy and the all-trace fold of the same sequence show.
C34_SchemaIndependentFold ==
    /\ SchemaView(state) = SchemaView(FoldInSchema(DashboardStateDefault, History, TRUE))
    /\ SchemaView(state) = SchemaView(FoldInSchema(DashboardStateDefault, History, FALSE))

\* request r1 was started, failed and then completed, and the stored record carries the
\* error flag in one schema's fold and not in the other's
C34_ErrorFlagDiffersBySchema ==
    /\ Len(History) = 3
    /\ History[1].change = "start" /\ History[2].change = "error"
    /\ History[3].change = "complete"
    /\ LET l == FoldInSchema(DashboardStateDefault, History, TRUE)
           t == FoldInSchema(DashboardStateDefault, History, FALSE)
       IN  /\ Len(l.requests) = 1 /\ Len(t.requests) = 1
           /\ ~l.requests[1].is_error /\ t.requests[1].is_error

(***************************************************************************)
(* The decode-failure counter across consumer iterations                   *)
(***************************************************************************)
\* C35: the decode-failure counter of the Store never decreases: an increment made by
\* folding an Error event is still there after the next consumer iteration has copied
\* the reader's atomic into the counter.
C35_ParseFailuresNeverDecrease ==
    [][state'.parse_failures >= state.parse_failures]_vars

\* a consumer iteration has just run over a Store that had folded an Error event (it is
\* in recent_errors) and the counter is back at the tailer's count, below the number of
\* errors folded
C35_ErrorCountOverwritten ==
    /\ last.op = "frame"
    /\ state.recent_errors # <<>>
    /\ state.parse_failures = app.parse_failures
    /\ state.parse_failures < Len(state.recent_errors)

(***************************************************************************)
(* The graph selection while the registry shrinks                          *)
(***************************************************************************)
\* a "registry:tool:removed" trace event for the tools "a" and "b", after the loads
GraphToolRemoved ==
    /\ last.n = MaxGraphLoads
    /\ state' = handle_unified_event(state, LogTransport(
           TraceRegistryEvent("tool", "removed",
               [names |-> Some(<<"a", "b">>), entries |-> None, owner |-> None])))
    /\ last' = [n |-> last.n + 1, op |-> "trace", kind |-> "tool", change |-> "removed",
                payload |-> None]
    /\ UNCHANGED app

NextShrink == GraphSnapshot \/ GraphKeyPress \/ GraphToolRemoved

SpecShrink == Init /\ [][NextShrink]_vars

\* C36: in every reachable state graph_selected is an index of the flattened graph,
\* less than its length, also after a registry event or a snapshot has shrunk the tree
\* below the selection.
C36_SelectionInsideGraph ==
    state.graph_selected < Len(build_graph_nodes(state))

\* the tools "a" and "b" have just been removed from a one-scope Store and graph_selected
\* is at or past the end of the list
C36_RemovalLeftSelectionOutside ==
    /\ last.kind = "tool" /\ last.change = "removed"
    /\ Len(state.scopes) = 1
    /\ state.graph_selected >= Len(build_graph_nodes(state))

(***************************************************************************)
(* Server ready events and the overview's address and port                 *)
(***************************************************************************)
Word == [numeric |-> FALSE, value |-> 0]
Digits(n) == [numeric |-> TRUE, value |-> n]

\* "http://localhost:3000", "http://localhost:8080", "http://localhost",
\* "http://localhost:70000", "localhost:http"
Addresses ==
    { <<Word, Word, Digits(3000)>>, <<Word, Word, Digits(8080)>>, <<Word, Word>>,
      <<Word, Word, Digits(70000)>>, <<Word, Word, Word>> }

\* "server:ready" in the trace schema
TraceServerReady ==
    \E address \in {None} \cup {Some(a) : a \in Addresses} :
        /\ last.n < MaxServerEvents
        /\ state' = handle_unified_event(state, LogTransport(
               TraceEvent("server:ready", "unknown", "unknown",
                          [NoData EXCEPT !.address = address])))
        /\ last' = [n |-> last.n + 1, op |-> "trace", kind |-> "server", change |-> "ready",
                    payload |-> address]
        /\ UNCHANGED app

\* ServerEventType::Ready in the legacy schema
LegacyServerReady ==
    \E address \in {None} \cup {Some(a) : a \in Addresses} :
        /\ last.n < MaxServerEvents
        /\ state' = handle_unified_event(state, Legacy(
               [category |-> "server", event_type |-> "Ready",
                data |-> [server_name |-> Some("srv"), server_version |-> Some("1"),
                          address |-> address, error |-> None]]))
        /\ last' = [n |-> last.n + 1, op |-> "legacy", kind |-> "server",
                    change |-> "ready", payload |-> address]
        /\ UNCHANGED app

NextServer == TraceServerReady \/ LegacyServerReady

SpecServer == Init /\ [][NextServer]_vars

\* C37: after any sequence of server ready events overview.server_port is the number
\* parsed from the last ':'-segment of overview.server_address, and it is absent when
\* the address is absent or that segment does not parse.
C37_PortFollowsAddress ==
    state.overview.server_port =
        IF IsSome(state.overview.server_address)
        THEN ParsePort(Get(state.overview.server_address))
        ELSE None

\* the ready event just folded carried an address without a port that parses, the
\* overview shows that address, and server_port still holds a number
C37_PortOfEarlierAddressKept ==
    /\ last.kind = "server" /\ last.change = "ready"
    /\ IsSome(last.payload) /\ ~IsSome(ParsePort(Get(last.payload)))
    /\ state.overview.server_address = last.payload
    /\ IsSome(state.overview.server_port)

(***************************************************************************)
(* The apps list across state snapshots                                    *)
(***************************************************************************)
\* C38: after any number of state snapshots the apps list holds one entry per scope of
\* the most recent snapshot (the scopes the Store holds), in order, and folding a
\* snapshot a second time leaves the apps list as the first fold left it.
C38_AppsOnePerScope ==
    /\ Len(state.apps) = Len(state.scopes)
    /\ \A i \in DOMAIN state.apps : state.apps[i].id = state.scopes[i].id
    /\ \A snapshot \in Snapshots :
          LET once == handle_state_snapshot(state, snapshot)
          IN  handle_state_snapshot(once, snapshot).apps = once.apps

\* a second snapshot with a scope has just been folded and the apps list holds more
\* entries than the Store has scopes
C38_AppsOfEarlierSnapshotKept ==
    /\ last.op = "snapshot" /\ last.n = 2
    /\ state.scopes # <<>>
    /\ Len(state.apps) > Len(state.scopes)

====
